---- MODULE Spec2Model ----
(***************************************************************************)
(* Model of the multi-window coordination and presentation-timing runtime  *)
(* of the ghost desktop companion:                                         *)
(*   - Callout / TextAnimator   (ghost-ui/src/elements/callout)            *)
(*   - CalloutWindowApp         (src/windows/callout_window.rs)            *)
(*   - ChatWindow snap protocol (src/windows/chat_window.rs, src/vars.rs)  *)
(*   - GhostWindow hit testing  (ghost-ui/src/window/mod.rs, skin.rs)      *)
(*   - Animation                (ghost-ui/src/animated_skin.rs)            *)
(*                                                                         *)
(* Time is counted in integer units of 50 ms.  Every f32 quantity of the   *)
(* source that is a time or a rate is kept exact: a rate r per second is   *)
(* kept as the number of units per item (1/r), a fade progress as the      *)
(* number of units accumulated over the fade duration.  Floating-point     *)
(* rounding is therefore not part of the model.                            *)
(*                                                                         *)
(* Option<T> is modelled as a sequence of length 0 (None) or 1 (Some).     *)
(***************************************************************************)
EXTENDS Integers, Sequences, FiniteSets, TLC

VARIABLES
    callout,      \* Callout (elements/callout/mod.rs:20-55), a record
    cmdQueue,     \* mpsc channel of CalloutCommand (callout_window.rs:133-135)
    calloutHist,  \* history of the callout operations, see CalloutHist0
    ghostState,   \* GhostState (src/vars.rs:49-55), the fields the snap logic uses
    chatWindow,   \* ChatWindow (chat_window.rs:108-130): visible, was_visible
    chatQueue,    \* mpsc channel of ChatWindowCommand (chat_window.rs:103-105)
    osPos,        \* screen position of the main and of the callout window
    chatEchoes,   \* positions set on the chat window whose Moved event is to come
    snapHist,     \* history of the snap operations, see SnapHist0
    window,       \* GhostWindow's WindowData (window/mod.rs:37-53), a record
    windowOp,     \* the GhostWindow operation taken last
    opacityOverride, \* set_opacity was called and no handle_focus since
    anim,         \* Animation (animated_skin.rs:50-67), a record
    animHist,     \* history of the animation operations, see AnimHist0
    animator,     \* TextAnimator (elements/callout/text.rs:12-25), a record
    animatorHist, \* history of the TextAnimator operations, see AnimatorHist0
    sizing,       \* WindowData's size fields (window/mod.rs:37-53) and the renderer's size
    sizingHist,   \* history of the resize operations, see SizingHist0
    animatedSkin, \* AnimatedSkin (animated_skin.rs:265-275), a record
    skinHist,     \* history of the AnimatedSkin operations, see SkinHist0
    app,          \* App (src/windows/main_window.rs:30-57), the fields of the skin hand-over
    loader,       \* the background loader thread and its channel (src/main.rs:63-78)
    runLoop,      \* locals of run_with_app_callout_and_extra and the event loop's position
    loopHist      \* history of the run loop's current iteration, see LoopHist0

calloutVars == <<callout, cmdQueue, calloutHist>>
snapVars == <<ghostState, chatWindow, chatQueue, osPos, chatEchoes, snapHist>>
windowVars == <<window, windowOp, opacityOverride>>
animVars == <<anim, animHist>>
textVars == <<animator, animatorHist>>
sizingVars == <<sizing, sizingHist>>
skinVars == <<animatedSkin, skinHist>>
loopVars == <<app, loader, runLoop, loopHist>>

\* What an operation of one component leaves alone: the other components.
notCallout == <<snapVars, windowVars, animVars, textVars, sizingVars, skinVars, loopVars>>
notSnap == <<calloutVars, windowVars, animVars, textVars, sizingVars, skinVars, loopVars>>
notWindow == <<calloutVars, snapVars, animVars, textVars, sizingVars, skinVars, loopVars>>
notAnim == <<calloutVars, snapVars, windowVars, textVars, sizingVars, skinVars, loopVars>>
notText == <<calloutVars, snapVars, windowVars, animVars, sizingVars, skinVars, loopVars>>
notSizing == <<calloutVars, snapVars, windowVars, animVars, textVars, skinVars, loopVars>>
notSkin == <<calloutVars, snapVars, windowVars, animVars, textVars, sizingVars, loopVars>>
notLoop == <<calloutVars, snapVars, windowVars, animVars, textVars, sizingVars, skinVars>>

None == <<>>
Some(x) == <<x>>
IsSome(o) == Len(o) = 1
Unwrap(o) == o[1]

Min(a, b) == IF a <= b THEN a ELSE b
Max(a, b) == IF a >= b THEN a ELSE b
Abs(a) == IF a >= 0 THEN a ELSE 0 - a

(***************************************************************************)
(* Bounds of the model.                                                    *)
(***************************************************************************)
\* update is not taken once the time since the last show would exceed this
\* many units.
MaxElapsed == 14
\* The same limit for the specification that follows one callout with the
\* timing delay=0, fade_in=0.15s, duration=2s, fade_out=0.15s to its end.
MaxTimeline == 48
\* Capacity given to the (unbounded) callout command channel.
MaxQueue == 2
\* Capacity given to the (unbounded) chat command channel.
MaxChatQueue == 2
\* The largest number of frames of an animation.
MaxFrames == 3
\* The longest text given to a TextAnimator driven on its own.
MaxTextLen == 3
\* Such a TextAnimator is not updated once the deltas since its construction
\* or reset would total more than this many units.
MaxTextTime == 13

(***************************************************************************)
(* TextAnimator  (ghost-ui/src/elements/callout/text.rs)                   *)
(* A text is a sequence of character classes: "a" a letter, " " a          *)
(* whitespace character, "." one of the punctuation marks . , ! ?          *)
(***************************************************************************)
IsWhitespace(c) == c = " "
IsPunctuation(c) == c = "."

\* The texts shown by the model.
Texts == { <<"a", "a">>, <<"a", " ", "a", ".">> }

\* TextAnimation values: kind and the number of time units per character
\* (Typewriter, Stream: 1/cps) or per word (WordByWord: 1/wps).
TextAnimations ==
    { [kind |-> "Instant", upi |-> 2],
      [kind |-> "Typewriter", upi |-> 2],
      [kind |-> "WordByWord", upi |-> 4],
      [kind |-> "Stream", upi |-> 2] }

RECURSIVE WordBoundariesFrom(_, _, _, _)
WordBoundariesFrom(text, i, in_word, boundaries) ==
    IF i > Len(text)
    THEN IF in_word THEN Append(boundaries, Len(text)) ELSE boundaries
    ELSE IF IsWhitespace(text[i])
         THEN IF in_word
              THEN WordBoundariesFrom(text, i + 1, FALSE, Append(boundaries, i - 1))
              ELSE WordBoundariesFrom(text, i + 1, FALSE, boundaries)
         ELSE WordBoundariesFrom(text, i + 1, TRUE, boundaries)

compute_word_boundaries(text) == WordBoundariesFrom(text, 1, FALSE, <<>>)

TextAnimator_new(text, animation) ==
    [ full_text       |-> text,
      visible_chars   |-> IF animation.kind = "Instant" THEN Len(text) ELSE 0,
      animation       |-> animation,
      elapsed         |-> 0,
      is_complete     |-> animation.kind = "Instant",
      word_boundaries |-> compute_word_boundaries(text) ]

char_duration(c, upi) ==
    IF IsWhitespace(c) THEN upi \div 2
    ELSE IF IsPunctuation(c) THEN 2 * upi
    ELSE upi

\* The loop of the Stream arm: the number of leading characters whose
\* cumulative duration is <= elapsed.
RECURSIVE StreamChars(_, _, _, _, _)
StreamChars(text, upi, elapsed, i, time_consumed) ==
    IF i > Len(text) THEN Len(text)
    ELSE LET t == time_consumed + char_duration(text[i], upi)
         IN  IF t <= elapsed
             THEN StreamChars(text, upi, elapsed, i + 1, t)
             ELSE i - 1

\* TextAnimator::update with the Typewriter arm completing on `>` for `>=`.
TextAnimator_update_late_complete(ta, delta) ==
    IF ta.is_complete THEN ta
    ELSE
      LET elapsed     == ta.elapsed + delta
          total_chars == Len(ta.full_text)
          upi         == ta.animation.upi
          kind        == ta.animation.kind
          t1          == [ta EXCEPT !.elapsed = elapsed]
      IN  CASE kind = "Instant" ->
                 [t1 EXCEPT !.visible_chars = total_chars, !.is_complete = TRUE]
            [] kind = "Typewriter" ->
                 LET n == elapsed \div upi
                 IN  IF n > total_chars
                     THEN [t1 EXCEPT !.visible_chars = total_chars, !.is_complete = TRUE]
                     ELSE [t1 EXCEPT !.visible_chars = n]
            [] kind = "WordByWord" ->
                 LET word_count == elapsed \div upi
                 IN  IF word_count = 0
                     THEN [t1 EXCEPT !.visible_chars = 0]
                     ELSE IF word_count > Len(ta.word_boundaries)
                     THEN [t1 EXCEPT !.visible_chars = total_chars, !.is_complete = TRUE]
                     ELSE [t1 EXCEPT !.visible_chars = ta.word_boundaries[word_count]]
            [] kind = "Stream" ->
                 LET n == Min(StreamChars(ta.full_text, upi, elapsed, 1, 0), total_chars)
                 IN  [t1 EXCEPT !.visible_chars = n, !.is_complete = (n >= total_chars)]

\* TextAnimator::update with the WordByWord arm showing the whole text as
\* soon as the last word is due (`>=` for `>` at text.rs:100).
TextAnimator_update_early_last_word(ta, delta) ==
    IF ta.is_complete THEN ta
    ELSE
      LET elapsed     == ta.elapsed + delta
          total_chars == Len(ta.full_text)
          upi         == ta.animation.upi
          kind        == ta.animation.kind
          t1          == [ta EXCEPT !.elapsed = elapsed]
      IN  CASE kind = "Instant" ->
                 [t1 EXCEPT !.visible_chars = total_chars, !.is_complete = TRUE]
            [] kind = "Typewriter" ->
                 LET n == elapsed \div upi
                 IN  IF n >= total_chars
                     THEN [t1 EXCEPT !.visible_chars = total_chars, !.is_complete = TRUE]
                     ELSE [t1 EXCEPT !.visible_chars = n]
            [] kind = "WordByWord" ->
                 LET word_count == elapsed \div upi
                 IN  IF word_count = 0
                     THEN [t1 EXCEPT !.visible_chars = 0]
                     ELSE IF word_count >= Len(ta.word_boundaries)
                     THEN [t1 EXCEPT !.visible_chars = total_chars, !.is_complete = TRUE]
                     ELSE [t1 EXCEPT !.visible_chars = ta.word_boundaries[word_count]]
            [] kind = "Stream" ->
                 LET n == Min(StreamChars(ta.full_text, upi, elapsed, 1, 0), total_chars)
                 IN  [t1 EXCEPT !.visible_chars = n, !.is_complete = (n >= total_chars)]

\* TextAnimator::update without the early return on is_complete
\* (text.rs:76-78): a complete animator is recomputed from its clock.
TextAnimator_update_ignoring_complete(ta, delta) ==
      LET elapsed     == ta.elapsed + delta
          total_chars == Len(ta.full_text)
          upi         == ta.animation.upi
          kind        == ta.animation.kind
          t1          == [ta EXCEPT !.elapsed = elapsed]
      IN  CASE kind = "Instant" ->
                 [t1 EXCEPT !.visible_chars = total_chars, !.is_complete = TRUE]
            [] kind = "Typewriter" ->
                 LET n == elapsed \div upi
                 IN  IF n >= total_chars
                     THEN [t1 EXCEPT !.visible_chars = total_chars, !.is_complete = TRUE]
                     ELSE [t1 EXCEPT !.visible_chars = n]
            [] kind = "WordByWord" ->
                 LET word_count == elapsed \div upi
                 IN  IF word_count = 0
                     THEN [t1 EXCEPT !.visible_chars = 0]
                     ELSE IF word_count > Len(ta.word_boundaries)
                     THEN [t1 EXCEPT !.visible_chars = total_chars, !.is_complete = TRUE]
                     ELSE [t1 EXCEPT !.visible_chars = ta.word_boundaries[word_count]]
            [] kind = "Stream" ->
                 LET n == Min(StreamChars(ta.full_text, upi, elapsed, 1, 0), total_chars)
                 IN  [t1 EXCEPT !.visible_chars = n, !.is_complete = (n >= total_chars)]

\* TextAnimator::update (text.rs:75-136).
TextAnimator_update(ta, delta) ==
    IF ta.is_complete THEN ta
    ELSE
      LET elapsed     == ta.elapsed + delta
          total_chars == Len(ta.full_text)
          upi         == ta.animation.upi
          kind        == ta.animation.kind
          t1          == [ta EXCEPT !.elapsed = elapsed]
      IN  CASE kind = "Instant" ->
                 [t1 EXCEPT !.visible_chars = total_chars, !.is_complete = TRUE]
            [] kind = "Typewriter" ->
                 LET n == elapsed \div upi
                 IN  IF n >= total_chars
                     THEN [t1 EXCEPT !.visible_chars = total_chars, !.is_complete = TRUE]
                     ELSE [t1 EXCEPT !.visible_chars = n]
            [] kind = "WordByWord" ->
                 LET word_count == elapsed \div upi
                 IN  IF word_count = 0
                     THEN [t1 EXCEPT !.visible_chars = 0]
                     ELSE IF word_count > Len(ta.word_boundaries)
                     THEN [t1 EXCEPT !.visible_chars = total_chars, !.is_complete = TRUE]
                     ELSE [t1 EXCEPT !.visible_chars = ta.word_boundaries[word_count]]
            [] kind = "Stream" ->
                 LET n == Min(StreamChars(ta.full_text, upi, elapsed, 1, 0), total_chars)
                 IN  [t1 EXCEPT !.visible_chars = n, !.is_complete = (n >= total_chars)]

\* skip that reveals the text without marking the reveal complete.
TextAnimator_skip_not_complete(ta) ==
    [ta EXCEPT !.visible_chars = Len(ta.full_text)]

\* TextAnimator::skip (text.rs:178-181).
TextAnimator_skip(ta) ==
    [ta EXCEPT !.visible_chars = Len(ta.full_text), !.is_complete = TRUE]

TextAnimator_visible_text(ta) ==
    SubSeq(ta.full_text, 1, Min(ta.visible_chars, Len(ta.full_text)))

\* TextAnimator::reset (text.rs:161-168).
TextAnimator_reset(ta) ==
    [ta EXCEPT !.elapsed = 0,
               !.visible_chars = IF ta.animation.kind = "Instant"
                                 THEN Len(ta.full_text) ELSE 0,
               !.is_complete = (ta.animation.kind = "Instant")]

(***************************************************************************)
(* A TextAnimator driven on its own.  History (not program state):         *)
(*   op       the operation taken last                                     *)
(*   t        the total of the deltas handed to update since the           *)
(*            construction or the last reset                               *)
(*   skipped  skip was called since the construction or the last reset     *)
(***************************************************************************)
Chars == {"a", " ", "."}
AllTexts == UNION { [1..n -> Chars] : n \in 0..MaxTextLen }

\* Rates: two for Typewriter and WordByWord, one for Stream.
AnimatorAnimations ==
    TextAnimations \cup { [kind |-> "Typewriter", upi |-> 3],
                          [kind |-> "WordByWord", upi |-> 3] }

AnimatorHist0 == [op |-> "new", t |-> 0, skipped |-> FALSE]

TextInit ==
    /\ \E text \in AllTexts, animation \in AnimatorAnimations :
         animator = TextAnimator_new(text, animation)
    /\ animatorHist = AnimatorHist0

TextUpdate(delta) ==
    /\ animatorHist.t + delta <= MaxTextTime
    /\ animator' = TextAnimator_update(animator, delta)
    /\ animatorHist' = [animatorHist EXCEPT !.op = "update", !.t = @ + delta]
    /\ UNCHANGED notText

TextSkip ==
    /\ animator' = TextAnimator_skip(animator)
    /\ animatorHist' = [animatorHist EXCEPT !.op = "skip", !.skipped = TRUE]
    /\ UNCHANGED notText

TextReset ==
    /\ animator' = TextAnimator_reset(animator)
    /\ animatorHist' = [op |-> "reset", t |-> 0, skipped |-> FALSE]
    /\ UNCHANGED notText

TextNext ==
    \/ \E delta \in {1, 2, 3} : TextUpdate(delta)
    \/ TextSkip
    \/ TextReset

(***************************************************************************)
(* Callout  (ghost-ui/src/elements/callout/mod.rs)                         *)
(***************************************************************************)
\* CalloutTiming values (ghost-callout/src/types.rs:190-201), in units of
\* 50 ms.
Timings ==
    { [delay |-> 0, fade_in |-> 3, fade_out |-> 3, duration |-> Some(6)],
      [delay |-> 0, fade_in |-> 3, fade_out |-> 3, duration |-> None],
      [delay |-> 2, fade_in |-> 3, fade_out |-> 0, duration |-> Some(6)],
      [delay |-> 0, fade_in |-> 0, fade_out |-> 3, duration |-> Some(4)],
      [delay |-> 2, fade_in |-> 0, fade_out |-> 0, duration |-> None],
      [delay |-> 2, fade_in |-> 3, fade_out |-> 3, duration |-> Some(4)],
      [delay |-> 2, fade_in |-> 0, fade_out |-> 3, duration |-> Some(4)],
      [delay |-> 0, fade_in |-> 3, fade_out |-> 0, duration |-> Some(4)],
      [delay |-> 0, fade_in |-> 0, fade_out |-> 0, duration |-> Some(4)],
      [delay |-> 2, fade_in |-> 0, fade_out |-> 0, duration |-> Some(4)] }

\* Frame deltas handed to update(), in units.
Deltas == {1, 2}

Hidden == [phase |-> "Hidden", progress |-> 0]
Visible == [phase |-> "Visible", progress |-> 0]
FadingIn(p) == [phase |-> "FadingIn", progress |-> p]
FadingOut(p) == [phase |-> "FadingOut", progress |-> p]

Callout_new(timing, animation) ==
    [ callout_type   |-> "Talk",
      timing         |-> timing,
      text_animation |-> animation,
      text_animator  |-> None,
      visibility     |-> Hidden,
      elapsed        |-> 0,
      is_visible     |-> FALSE ]

show_text(c, text) ==
    [c EXCEPT
       !.text_animator = Some(TextAnimator_new(text, c.text_animation)),
       !.elapsed = 0,
       !.is_visible = TRUE,
       !.visibility = IF c.timing.delay = 0
                      THEN IF c.timing.fade_in = 0 THEN Visible ELSE FadingIn(0)
                      ELSE Hidden]

say(c, text) == show_text([c EXCEPT !.callout_type = "Talk"], text)
think(c, text) == show_text([c EXCEPT !.callout_type = "Think"], text)
scream(c, text) == show_text([c EXCEPT !.callout_type = "Scream"], text)

Callout_hide(c) ==
    IF c.is_visible
    THEN IF c.timing.fade_out = 0
         THEN [c EXCEPT !.is_visible = FALSE, !.visibility = Hidden]
         ELSE [c EXCEPT !.visibility = FadingOut(0)]
    ELSE c

\* The Visible arm without the duration test: a callout that never expires.
VisibleArm_never_expiring(c) == c

\* The Visible arm of Callout::update: auto-hide once
\* elapsed - delay >= duration.
VisibleArm(c) ==
    IF IsSome(c.timing.duration)
    THEN LET visible_time == c.elapsed - c.timing.delay
         IN  IF visible_time >= Unwrap(c.timing.duration)
             THEN IF c.timing.fade_out = 0
                  THEN [c EXCEPT !.is_visible = FALSE, !.visibility = Hidden]
                  ELSE [c EXCEPT !.visibility = FadingOut(0)]
             ELSE c
    ELSE c

Callout_update(c0, delta) ==
    IF ~c0.is_visible /\ c0.visibility = Hidden THEN c0
    ELSE
      LET c == [c0 EXCEPT !.elapsed = c0.elapsed + delta]
      IN  IF c.elapsed < c.timing.delay THEN c
          ELSE
            LET v == c.visibility
                c2 ==
                  CASE v.phase = "Hidden" ->
                         [c EXCEPT !.visibility =
                            IF c.timing.fade_in = 0 THEN Visible ELSE FadingIn(0)]
                    [] v.phase = "FadingIn" ->
                         LET new_progress == v.progress + delta
                         IN  IF new_progress >= c.timing.fade_in
                             THEN [c EXCEPT !.visibility = Visible]
                             ELSE [c EXCEPT !.visibility = FadingIn(new_progress)]
                    [] v.phase = "Visible" -> VisibleArm(c)
                    [] v.phase = "FadingOut" ->
                         LET new_progress == v.progress + delta
                         IN  IF new_progress >= c.timing.fade_out
                             THEN [c EXCEPT !.visibility = Hidden, !.is_visible = FALSE]
                             ELSE [c EXCEPT !.visibility = FadingOut(new_progress)]
            IN  IF IsSome(c2.text_animator)
                THEN [c2 EXCEPT !.text_animator =
                        Some(TextAnimator_update(Unwrap(c2.text_animator), delta))]
                ELSE c2

\* opacity() as the fraction OpacityNum / OpacityDen.
OpacityNum(c) ==
    CASE c.visibility.phase = "Hidden" -> 0
      [] c.visibility.phase = "FadingIn" -> c.visibility.progress
      [] c.visibility.phase = "Visible" -> 1
      [] c.visibility.phase = "FadingOut" -> c.timing.fade_out - c.visibility.progress

OpacityDen(c) ==
    CASE c.visibility.phase = "Hidden" -> 1
      [] c.visibility.phase = "FadingIn" -> c.timing.fade_in
      [] c.visibility.phase = "Visible" -> 1
      [] c.visibility.phase = "FadingOut" -> c.timing.fade_out

Callout_is_visible(c) == c.is_visible /\ c.visibility # Hidden

Callout_is_animating(c) ==
    \/ IsSome(c.text_animator) /\ ~Unwrap(c.text_animator).is_complete
    \/ c.visibility.phase \in {"FadingIn", "FadingOut"}

skip_animation(c) ==
    IF IsSome(c.text_animator)
    THEN [c EXCEPT !.text_animator = Some(TextAnimator_skip(Unwrap(c.text_animator)))]
    ELSE c

visible_text(c) ==
    IF IsSome(c.text_animator)
    THEN TextAnimator_visible_text(Unwrap(c.text_animator))
    ELSE <<>>

(***************************************************************************)
(* CalloutWindowApp  (src/windows/callout_window.rs)                       *)
(* A CalloutCommand is a record [kind, text]; Hide carries no text.        *)
(***************************************************************************)
CalloutCommands ==
    { [kind |-> "Say", text |-> <<"a", "a">>],
      [kind |-> "Think", text |-> <<"a", " ", "a", ".">>],
      [kind |-> "Scream", text |-> <<"a", "a">>],
      [kind |-> "Hide", text |-> <<>>] }

apply_command(c, cmd) ==
    CASE cmd.kind = "Say" -> say(c, cmd.text)
      [] cmd.kind = "Think" -> think(c, cmd.text)
      [] cmd.kind = "Scream" -> scream(c, cmd.text)
      [] cmd.kind = "Hide" -> Callout_hide(c)

\* process_commands: `while let Ok(cmd) = receiver.try_recv()` applies every
\* command still in the channel, in order, and leaves the channel empty.
\* The result carries the callout and the commands that were applied.
RECURSIVE process_commands(_, _, _)
process_commands(c, queue, applied) ==
    IF queue = <<>>
    THEN [callout |-> c, applied |-> applied]
    ELSE process_commands(apply_command(c, Head(queue)), Tail(queue),
                          Append(applied, Head(queue)))

\* CalloutWindowApp::update.  `self.receiver.try_recv().is_ok()` takes the
\* first pending command out of the channel and drops it; process_commands
\* then sees the rest.
CalloutWindowApp_update(c, queue, delta) ==
    LET had_commands == queue # <<>>
        processed == IF had_commands
                     THEN process_commands(c, Tail(queue), <<>>)
                     ELSE [callout |-> c, applied |-> <<>>]
        was_visible == Callout_is_visible(processed.callout)
        c2 == Callout_update(processed.callout, delta)
        is_visible == Callout_is_visible(c2)
    IN  [ callout |-> c2,
          applied |-> processed.applied,
          redraw  |-> \/ had_commands
                      \/ was_visible # is_visible
                      \/ (is_visible /\ Callout_is_animating(c2)) ]

(***************************************************************************)
(* History of the callout operations (not program state):                  *)
(*   op          the operation taken last                                  *)
(*   onlyUpdated TRUE from a show until a hide() or a further show         *)
(*   queued      the channel content at the start of the last              *)
(*               CalloutWindowApp::update                                  *)
(*   applied     the commands that update applied to the callout           *)
(*   redraw      the value that update returned                            *)
(*   t           the time handed to update since the last show, in units   *)
(***************************************************************************)
CalloutHist0 ==
    [op |-> "new", onlyUpdated |-> FALSE, queued |-> <<>>, applied |-> <<>>,
     redraw |-> FALSE, t |-> 0]

CalloutInit ==
    /\ \E timing \in Timings, animation \in TextAnimations :
         callout = Callout_new(timing, animation)
    /\ cmdQueue = <<>>
    /\ calloutHist = CalloutHist0

\* say / think / scream called on the callout.
CalloutShow(kind, text) ==
    /\ callout' = apply_command(callout, [kind |-> kind, text |-> text])
    /\ calloutHist' = [calloutHist EXCEPT !.op = "show", !.onlyUpdated = TRUE,
                                          !.t = 0]
    /\ UNCHANGED <<cmdQueue, notCallout>>

CalloutHide ==
    /\ callout' = Callout_hide(callout)
    /\ calloutHist' = [calloutHist EXCEPT !.op = "hide", !.onlyUpdated = FALSE]
    /\ UNCHANGED <<cmdQueue, notCallout>>

CalloutUpdateWithin(delta, limit) ==
    /\ calloutHist.t + delta <= limit
    /\ callout' = Callout_update(callout, delta)
    /\ calloutHist' = [calloutHist EXCEPT !.op = "update", !.t = @ + delta]
    /\ UNCHANGED <<cmdQueue, notCallout>>

CalloutSkip ==
    /\ callout' = skip_animation(callout)
    /\ calloutHist' = [calloutHist EXCEPT !.op = "skip"]
    /\ UNCHANGED <<cmdQueue, notCallout>>

\* App::send_callout (src/windows/main_window.rs:188-192).
SendCallout(cmd) ==
    /\ Len(cmdQueue) < MaxQueue
    /\ cmdQueue' = Append(cmdQueue, cmd)
    /\ calloutHist' = [calloutHist EXCEPT !.op = "send", !.queued = <<>>,
                                          !.applied = <<>>, !.redraw = FALSE]
    /\ UNCHANGED <<callout, notCallout>>

\* One MainEventsCleared tick of the callout window: callout_app.update(delta).
CalloutAppUpdate(delta) ==
    /\ calloutHist.t + delta <= MaxElapsed
    /\ LET r == CalloutWindowApp_update(callout, cmdQueue, delta)
       IN  /\ callout' = r.callout
           /\ calloutHist' =
                [op |-> "app_update",
                 onlyUpdated |->
                    IF r.applied = <<>> THEN calloutHist.onlyUpdated
                    ELSE r.applied[Len(r.applied)].kind # "Hide",
                 queued |-> cmdQueue,
                 applied |-> r.applied,
                 redraw |-> r.redraw,
                 t |-> IF \E i \in 1..Len(r.applied) : r.applied[i].kind # "Hide"
                       THEN delta ELSE calloutHist.t + delta]
    /\ cmdQueue' = <<>>
    /\ UNCHANGED notCallout

(***************************************************************************)
(* Satellite windows: the callout window follows the main window in the    *)
(* run loop (ghost-ui/src/window/mod.rs), the chat window keeps itself     *)
(* snapped through GhostState (src/windows/chat_window.rs, src/vars.rs).   *)
(* A position is a pair <<x, y>> of physical pixels.                       *)
(***************************************************************************)
Add(p, q) == <<p[1] + q[1], p[2] + q[2]>>

\* `(offset as f64 * scale_factor) as i32` with the scale factor given in
\* halves: the cast truncates towards zero.
ScaleOffset(offset, sf2) ==
    LET tr(a) == IF a >= 0 THEN (a * sf2) \div 2 ELSE 0 - (((0 - a) * sf2) \div 2)
    IN  <<tr(offset[1]), tr(offset[2])>>

\* Configurations: the display scale factor in halves (1.0 and 1.5) and the
\* configured offset of the chat window from the main window.
SnapConfigs == { [sf2 |-> 2, offset |-> <<50, 0>>],
                 [sf2 |-> 3, offset |-> <<-35, 5>>] }
\* Offset of the callout window from the main window, as configured.
CalloutOffset == <<20, -35>>
\* Positions the main window is moved to; the first is its initial position.
MainStart == <<100, 100>>
MainPositions == { MainStart, <<140, 100>> }
\* Deviations of an observed chat window position from an anchor point.
Deviations == { <<0, 0>>, <<10, 0>>, <<0, -11>>, <<30, -30>>, <<31, 0>> }
FarAway == <<400, 100>>

\* Positions at which the chat window observes itself.
ObservedPositions(offset) ==
    { Add(Add(m, offset), d) : m \in MainPositions, d \in Deviations }
      \cup { FarAway }

ChatWindowCommands == {"Show", "Hide", "Toggle"}

unsnap_tolerance == 10
snap_tolerance == 30

\* The anchor point of the chat window: main_pos + scaled_extra_offset.
SnapPoint(gs) == Add(gs.main_pos, gs.scaled_extra_offset)

\* ChatWindow::show / hide / toggle, on the `visible` field.
ChatWindow_apply(visible, cmd) ==
    CASE cmd = "Show" -> TRUE
      [] cmd = "Hide" -> FALSE
      [] cmd = "Toggle" -> ~visible

RECURSIVE ChatWindow_drain(_, _)
ChatWindow_drain(visible, queue) ==
    IF queue = <<>> THEN visible
    ELSE ChatWindow_drain(ChatWindow_apply(visible, Head(queue)), Tail(queue))

\* ChatWindow::update_state.  The result carries the window, the shared
\* state and the set_position commands issued, in order.
update_state(cw, gs, queue) ==
    LET visible == ChatWindow_drain(cw.visible, queue)
        gs1 == [gs EXCEPT !.chat_visible = visible]
        resnap == visible /\ ~cw.was_visible
        gs2 == IF resnap
               THEN [gs1 EXCEPT !.chat_snapped = TRUE,
                                !.chat_last_set_pos = SnapPoint(gs1)]
               ELSE gs1
        cmds2 == IF resnap THEN <<SnapPoint(gs1)>> ELSE <<>>
        follow == /\ visible
                  /\ gs2.chat_snapped
                  /\ SnapPoint(gs2) # gs2.chat_last_set_pos
        gs3 == IF follow
               THEN [gs2 EXCEPT !.chat_last_set_pos = SnapPoint(gs2)]
               ELSE gs2
        cmds3 == IF follow THEN Append(cmds2, SnapPoint(gs2)) ELSE cmds2
    IN  [ window |-> [visible |-> visible, was_visible |-> visible],
          state  |-> gs3,
          set_position |-> cmds3 ]

\* The unsnap test with the tolerance itself counted as a drag.
unsnap_due_inclusive(position, last) ==
    \/ Abs(position[1] - last[1]) >= unsnap_tolerance
    \/ Abs(position[2] - last[2]) >= unsnap_tolerance

\* The unsnap test of on_event (chat_window.rs:371-376): the observed
\* position is off the last programmatic one by more than the tolerance.
unsnap_due(position, last) ==
    \/ Abs(position[1] - last[1]) > unsnap_tolerance
    \/ Abs(position[2] - last[2]) > unsnap_tolerance

\* The re-snap test with positions at the tolerance itself left out.
resnap_due_exclusive(position, snap) ==
    /\ Abs(position[1] - snap[1]) < snap_tolerance
    /\ Abs(position[2] - snap[2]) < snap_tolerance

\* The re-snap test of on_event (chat_window.rs:381-384): the observed
\* position is within the tolerance of the anchor point.
resnap_due(position, snap) ==
    /\ Abs(position[1] - snap[1]) <= snap_tolerance
    /\ Abs(position[2] - snap[2]) <= snap_tolerance

\* on_event_moved with the unsnap test demanding a deviation on both axes
\* (`&&` for `||` at chat_window.rs:374-375).
on_event_moved_both_axes(gs, position) ==
    IF gs.chat_just_resized
    THEN [ state |-> IF gs.chat_snapped
                     THEN [gs EXCEPT !.chat_just_resized = FALSE,
                                     !.chat_last_set_pos = position]
                     ELSE [gs EXCEPT !.chat_just_resized = FALSE],
           set_position |-> <<>> ]
    ELSE
      LET snap == SnapPoint(gs)
          last == gs.chat_last_set_pos
      IN  IF gs.chat_snapped
          THEN IF /\ Abs(position[1] - last[1]) > unsnap_tolerance
                  /\ Abs(position[2] - last[2]) > unsnap_tolerance
               THEN [ state |-> [gs EXCEPT !.chat_snapped = FALSE],
                      set_position |-> <<>> ]
               ELSE [ state |-> gs, set_position |-> <<>> ]
          ELSE IF /\ Abs(position[1] - snap[1]) <= snap_tolerance
                  /\ Abs(position[2] - snap[2]) <= snap_tolerance
               THEN [ state |-> [gs EXCEPT !.chat_snapped = TRUE,
                                           !.chat_last_set_pos = snap],
                      set_position |-> <<snap>> ]
               ELSE [ state |-> gs, set_position |-> <<>> ]

\* on_event_moved judging the Moved event that follows a Resized event as
\* any other, the flag still being cleared.
on_event_moved_unsuppressed(gs0, position) ==
    LET gs == [gs0 EXCEPT !.chat_just_resized = FALSE]
        snap == SnapPoint(gs)
        last == gs.chat_last_set_pos
    IN  IF gs.chat_snapped
        THEN IF unsnap_due(position, last)
             THEN [ state |-> [gs EXCEPT !.chat_snapped = FALSE],
                    set_position |-> <<>> ]
             ELSE [ state |-> gs, set_position |-> <<>> ]
        ELSE IF resnap_due(position, snap)
             THEN [ state |-> [gs EXCEPT !.chat_snapped = TRUE,
                                         !.chat_last_set_pos = snap],
                    set_position |-> <<snap>> ]
             ELSE [ state |-> gs, set_position |-> <<>> ]

\* ChatWindow::on_event for WindowEvent::Moved(position).
on_event_moved(gs, position) ==
    IF gs.chat_just_resized
    THEN [ state |-> IF gs.chat_snapped
                     THEN [gs EXCEPT !.chat_just_resized = FALSE,
                                     !.chat_last_set_pos = position]
                     ELSE [gs EXCEPT !.chat_just_resized = FALSE],
           set_position |-> <<>> ]
    ELSE
      LET snap == SnapPoint(gs)
          last == gs.chat_last_set_pos
      IN  IF gs.chat_snapped
          THEN IF unsnap_due(position, last)
               THEN [ state |-> [gs EXCEPT !.chat_snapped = FALSE],
                      set_position |-> <<>> ]
               ELSE [ state |-> gs, set_position |-> <<>> ]
          ELSE IF resnap_due(position, snap)
               THEN [ state |-> [gs EXCEPT !.chat_snapped = TRUE,
                                           !.chat_last_set_pos = snap],
                      set_position |-> <<snap>> ]
               ELSE [ state |-> gs, set_position |-> <<>> ]

(***************************************************************************)
(* History of the snap operations (not program state):                     *)
(*   op           the operation taken last                                 *)
(*   observed     the position of the last Moved event on the chat window  *)
(*   set_position the set_position commands the last operation issued on   *)
(*                the chat window                                          *)
(*   was_snapped  chat_snapped before the last operation                   *)
(***************************************************************************)
GhostState_new(offset) ==
    [ main_pos            |-> MainStart,
      chat_visible        |-> FALSE,
      chat_snapped        |-> TRUE,
      chat_last_set_pos   |-> <<0, 0>>,
      chat_just_resized   |-> FALSE,
      scaled_extra_offset |-> offset ]

SnapHist0 ==
    [op |-> "new", observed |-> <<0, 0>>, set_position |-> <<>>,
     was_snapped |-> TRUE]

SnapHistOf(op, observed, set_position) ==
    [op |-> op, observed |-> observed, set_position |-> set_position,
     was_snapped |-> ghostState.chat_snapped]

\* main.rs:197-208 and window/mod.rs:1341-1356: the offsets are scaled once,
\* main_pos is set from the main window's position, the callout window is
\* placed at its offset; the chat window starts hidden.
SnapInit ==
    \E cfg \in SnapConfigs :
      LET sf2 == cfg.sf2
          gs == GhostState_new(ScaleOffset(cfg.offset, sf2))
      IN  /\ ghostState = gs
          /\ chatWindow = [visible |-> FALSE, was_visible |-> FALSE]
          /\ chatQueue = <<>>
          /\ chatEchoes = {}
          /\ osPos = [ main |-> MainStart,
                       callout |-> Add(MainStart, ScaleOffset(CalloutOffset, sf2)),
                       callout_offset |-> ScaleOffset(CalloutOffset, sf2) ]
          /\ snapHist = SnapHist0

\* WindowEvent::Moved(position) on the main window (window/mod.rs:1476-1483):
\* the callout window is repositioned; App::on_event(GhostEvent::Moved)
\* (main_window.rs:375-377) does nothing.
MainMoved(position) ==
    /\ position # osPos.main
    /\ osPos' = [osPos EXCEPT !.main = position,
                              !.callout = Add(position, osPos.callout_offset)]
    /\ snapHist' = SnapHistOf("main_moved", <<0, 0>>, <<>>)
    /\ UNCHANGED <<ghostState, chatWindow, chatQueue, chatEchoes, notSnap>>

\* A ChatWindowCommand is sent to the chat window.
SendChat(cmd) ==
    /\ Len(chatQueue) < MaxChatQueue
    /\ chatQueue' = Append(chatQueue, cmd)
    /\ snapHist' = SnapHistOf("send", <<0, 0>>, <<>>)
    /\ UNCHANGED <<ghostState, chatWindow, osPos, chatEchoes, notSnap>>

\* The positions of a sequence of set_position commands.
Positions(cmds) == { cmds[i] : i \in 1..Len(cmds) }

\* extra.update(delta) at MainEventsCleared.  The OS answers each
\* set_position (set_outer_position, chat_window.rs:283-286) with a Moved
\* event of that position, delivered later (ChatEcho).
ChatUpdate ==
    LET r == update_state(chatWindow, ghostState, chatQueue)
    IN  /\ chatWindow' = r.window
        /\ ghostState' = r.state
        /\ chatQueue' = <<>>
        /\ chatEchoes' = chatEchoes \cup Positions(r.set_position)
        /\ snapHist' = SnapHistOf("chat_update", <<0, 0>>, r.set_position)
        /\ UNCHANGED <<osPos, notSnap>>

\* WindowEvent::Moved(position) on the chat window, the position being one
\* the user or the window system gave it.
ChatMoved(position) ==
    LET r == on_event_moved(ghostState, position)
    IN  /\ ghostState' = r.state
        /\ chatEchoes' = chatEchoes \cup Positions(r.set_position)
        /\ snapHist' = SnapHistOf("chat_moved", position, r.set_position)
        /\ UNCHANGED <<chatWindow, chatQueue, osPos, notSnap>>

\* WindowEvent::Moved(position) on the chat window, the position being one
\* the program set on it with set_position.  The program only ever sets the
\* anchor point, so the pending echoes are kept as a set.
ChatEcho(position) ==
    /\ position \in chatEchoes
    /\ LET r == on_event_moved(ghostState, position)
       IN  /\ ghostState' = r.state
           /\ chatEchoes' = (chatEchoes \ {position}) \cup Positions(r.set_position)
           /\ snapHist' = SnapHistOf("chat_echo", position, r.set_position)
    /\ UNCHANGED <<chatWindow, chatQueue, osPos, notSnap>>

\* WindowEvent::Resized on the chat window (chat_window.rs:353-355).
ChatResized ==
    /\ ghostState' = [ghostState EXCEPT !.chat_just_resized = TRUE]
    /\ snapHist' = SnapHistOf("chat_resized", <<0, 0>>, <<>>)
    /\ UNCHANGED <<chatWindow, chatQueue, osPos, chatEchoes, notSnap>>

\* WindowEvent::CloseRequested on the chat window (chat_window.rs:409-411).
ChatCloseRequested ==
    /\ chatWindow.visible
    /\ chatWindow' = [chatWindow EXCEPT !.visible = FALSE]
    /\ snapHist' = SnapHistOf("chat_close", <<0, 0>>, <<>>)
    /\ UNCHANGED <<ghostState, chatQueue, osPos, chatEchoes, notSnap>>

SnapNext ==
    \/ \E position \in MainPositions : MainMoved(position)
    \/ \E cmd \in ChatWindowCommands : SendChat(cmd)
    \/ ChatUpdate
    \/ \E position \in ObservedPositions(ghostState.scaled_extra_offset) :
         ChatMoved(position)
    \/ \E position \in chatEchoes : ChatEcho(position)
    \/ ChatResized
    \/ ChatCloseRequested

(***************************************************************************)
(* GhostWindow: focus, cursor and alpha hit testing                        *)
(* (ghost-ui/src/window/mod.rs, ghost-ui/src/skin.rs).                     *)
(* A cursor position is a pair <<x, y>> of whole physical pixels, a size a *)
(* pair <<width, height>>.  ignore_cursor_events is the value last handed  *)
(* to the platform's set_ignore_cursor_events.                             *)
(***************************************************************************)
DEFAULT_ALPHA_THRESHOLD == 10

\* Sprites: width, height and the alpha channel, row-major, top to bottom.
Skins ==
    { [width |-> 2, height |-> 2, alpha_data |-> <<255, 10, 11, 0>>],
      [width |-> 1, height |-> 2, alpha_data |-> <<0, 200>>] }

WindowSizes == { <<2, 2>>, <<4, 4>>, <<3, 2>> }
CursorCoords == {-1, 0, 1, 3, 4}
CursorPositions == CursorCoords \X CursorCoords

\* Opacities are in hundredths.  The main window's opacities are those of
\* main.rs:129-130; focus_opacity_enabled is the default (config.rs:75).
WindowConfigs ==
    [ click_through : BOOLEAN, alpha_hit_test : BOOLEAN,
      alpha_threshold : {DEFAULT_ALPHA_THRESHOLD},
      opacity_focused : {100}, opacity_unfocused : {70},
      focus_opacity_enabled : {TRUE} ]

\* `v as u32` for the f32 value num/den (den > 0): the cast truncates
\* towards zero and saturates, so every negative value becomes 0.
AsU32(num, den) == IF num <= 0 THEN 0 ELSE num \div den

\* Skin::hit_test(x, y, alpha_threshold) with x = xn/xd and y = yn/yd.
Skin_hit_test(skin, xn, xd, yn, yd, alpha_threshold) ==
    LET px == AsU32(xn, xd)
        py == AsU32(yn, yd)
        index == py * skin.width + px
    IN  IF px >= skin.width \/ py >= skin.height THEN FALSE
        ELSE IF index >= Len(skin.alpha_data) THEN FALSE
        ELSE skin.alpha_data[index + 1] > alpha_threshold

hit_test_at_cursor(w) ==
    IF ~IsSome(w.cursor_position) THEN FALSE
    ELSE IF ~IsSome(w.skin) THEN TRUE
    ELSE IF ~IsSome(w.original_skin_size) THEN TRUE
    ELSE IF w.last_size[1] = 0 \/ w.last_size[2] = 0 THEN FALSE
    ELSE LET cursor_pos == Unwrap(w.cursor_position)
             orig == Unwrap(w.original_skin_size)
         IN  \* skin_x = cursor.x * (orig_w / win_w), skin_y likewise
             Skin_hit_test(Unwrap(w.skin),
                           cursor_pos[1] * orig[1], w.last_size[1],
                           cursor_pos[2] * orig[2], w.last_size[2],
                           w.config.alpha_threshold)

should_handle_click(w) ==
    IF w.config.click_through THEN FALSE
    ELSE IF ~w.config.alpha_hit_test THEN TRUE
    ELSE hit_test_at_cursor(w)

update_click_through(w, transparent) ==
    [w EXCEPT !.ignore_cursor_events = transparent]

\* GhostWindow::update_opacity_for_focus.
update_opacity_for_focus(w) ==
    [w EXCEPT !.current_opacity = IF w.is_focused
                                  THEN w.config.opacity_focused
                                  ELSE w.config.opacity_unfocused]

handle_focus(w0, focused) ==
    LET w1 == [w0 EXCEPT !.is_focused = focused]
        w == IF w1.config.focus_opacity_enabled
             THEN update_opacity_for_focus(w1)
             ELSE w1
    IN  IF w.config.alpha_hit_test /\ ~w.config.click_through
        THEN IF ~focused
             THEN update_click_through(w, FALSE)
             ELSE update_click_through(w, ~hit_test_at_cursor(w))
        ELSE w

\* handle_cursor_moved without the `self.is_focused` test of
\* window/mod.rs:356.
handle_cursor_moved_any_focus(w0, position) ==
    LET w == [w0 EXCEPT !.cursor_position = Some(position)]
    IN  IF w.config.alpha_hit_test /\ ~w.config.click_through
        THEN update_click_through(w, ~hit_test_at_cursor(w))
        ELSE w

handle_cursor_moved(w0, position) ==
    LET w == [w0 EXCEPT !.cursor_position = Some(position)]
    IN  IF w.config.alpha_hit_test /\ ~w.config.click_through /\ w.is_focused
        THEN update_click_through(w, ~hit_test_at_cursor(w))
        ELSE w

handle_cursor_left(w0) ==
    LET w == [w0 EXCEPT !.cursor_position = None]
    IN  IF w.config.alpha_hit_test /\ ~w.config.click_through /\ w.is_focused
        THEN update_click_through(w, FALSE)
        ELSE w

set_skin(w, skin) ==
    [w EXCEPT !.original_skin_size = Some(<<skin.width, skin.height>>),
              !.skin = Some(skin)]

\* GhostWindow::new (window/mod.rs:63-124); configure_window asks the
\* platform to ignore cursor events only if click_through is configured
\* (platform.rs:19-24).
GhostWindow_new(config, size) ==
    [ config               |-> config,
      skin                 |-> None,
      original_skin_size   |-> None,
      last_size            |-> size,
      cursor_position      |-> None,
      is_focused           |-> FALSE,
      current_opacity      |-> IF config.focus_opacity_enabled
                               THEN config.opacity_unfocused
                               ELSE config.opacity_focused,
      ignore_cursor_events |-> config.click_through ]

WindowInit ==
    /\ \E config \in WindowConfigs, size \in WindowSizes :
         window = GhostWindow_new(config, size)
    /\ windowOp = "new"
    /\ opacityOverride = FALSE

\* WindowEvent::Focused(focused) (window/mod.rs:1367-1378).
HandleFocus(focused) ==
    /\ window' = handle_focus(window, focused)
    /\ windowOp' = "focus"
    /\ opacityOverride' = FALSE
    /\ UNCHANGED notWindow

\* WindowEvent::CursorMoved (window/mod.rs:1380-1391).
HandleCursorMoved(position) ==
    /\ window' = handle_cursor_moved(window, position)
    /\ windowOp' = "cursor_moved"
    /\ UNCHANGED opacityOverride
    /\ UNCHANGED notWindow

\* WindowEvent::CursorLeft (window/mod.rs:1393-1401).
HandleCursorLeft ==
    /\ window' = handle_cursor_left(window)
    /\ windowOp' = "cursor_left"
    /\ UNCHANGED opacityOverride
    /\ UNCHANGED notWindow

\* GhostWindow::set_skin / load_skin_from_bytes.
SetSkin(skin) ==
    /\ window' = set_skin(window, skin)
    /\ windowOp' = "set_skin"
    /\ UNCHANGED opacityOverride
    /\ UNCHANGED notWindow

WindowNext ==
    \/ \E focused \in BOOLEAN : HandleFocus(focused)
    \/ \E position \in CursorPositions : HandleCursorMoved(position)
    \/ HandleCursorLeft
    \/ \E skin \in Skins : SetSkin(skin)

(***************************************************************************)
(* GhostWindow: opacity  (ghost-ui/src/window/mod.rs:160-192, 322-349).    *)
(* An opacity is a number of hundredths; `clamp(0.0, 1.0)` is Clamp01.     *)
(***************************************************************************)
Clamp01(opacity) == IF opacity < 0 THEN 0 ELSE IF opacity > 100 THEN 100 ELSE opacity

set_opacity(w, opacity) == [w EXCEPT !.current_opacity = Clamp01(opacity)]

\* set_opacity_focused applying the new value whatever the focus.
set_opacity_focused_any_focus(w0, opacity) ==
    LET w == [w0 EXCEPT !.config.opacity_focused = Clamp01(opacity)]
    IN  IF w.config.focus_opacity_enabled
        THEN [w EXCEPT !.current_opacity = w.config.opacity_focused]
        ELSE w

set_opacity_focused(w0, opacity) ==
    LET w == [w0 EXCEPT !.config.opacity_focused = Clamp01(opacity)]
    IN  IF w.is_focused /\ w.config.focus_opacity_enabled
        THEN [w EXCEPT !.current_opacity = w.config.opacity_focused]
        ELSE w

set_opacity_unfocused(w0, opacity) ==
    LET w == [w0 EXCEPT !.config.opacity_unfocused = Clamp01(opacity)]
    IN  IF ~w.is_focused /\ w.config.focus_opacity_enabled
        THEN [w EXCEPT !.current_opacity = w.config.opacity_unfocused]
        ELSE w

set_focus_opacity_enabled(w0, enabled) ==
    LET w == [w0 EXCEPT !.config.focus_opacity_enabled = enabled]
    IN  IF enabled THEN update_opacity_for_focus(w) ELSE w

\* Opacities the callers pass, some of them outside [0, 1].
OpacityInputs == {-10, 40, 100, 120}

\* The opacity settings windows are built with: the main window's and the
\* callout window's (main.rs:129-130, 170-171), and one with focus-based
\* opacity switched off.
OpacityConfigs ==
    { [click_through |-> FALSE, alpha_hit_test |-> TRUE,
       alpha_threshold |-> DEFAULT_ALPHA_THRESHOLD,
       opacity_focused |-> c[1], opacity_unfocused |-> c[2],
       focus_opacity_enabled |-> c[3]] :
        c \in { <<100, 70, TRUE>>, <<100, 100, TRUE>>, <<100, 50, FALSE>> } }

OpacityInit ==
    /\ \E config \in OpacityConfigs : window = GhostWindow_new(config, <<2, 2>>)
    /\ windowOp = "new"
    /\ opacityOverride = FALSE

SetOpacity(opacity) ==
    /\ window' = set_opacity(window, opacity)
    /\ windowOp' = "set_opacity"
    /\ opacityOverride' = TRUE
    /\ UNCHANGED notWindow

SetOpacityFocused(opacity) ==
    /\ window' = set_opacity_focused(window, opacity)
    /\ windowOp' = "set_opacity_focused"
    /\ UNCHANGED <<opacityOverride, notWindow>>

SetOpacityUnfocused(opacity) ==
    /\ window' = set_opacity_unfocused(window, opacity)
    /\ windowOp' = "set_opacity_unfocused"
    /\ UNCHANGED <<opacityOverride, notWindow>>

SetFocusOpacityEnabled(enabled) ==
    /\ window' = set_focus_opacity_enabled(window, enabled)
    /\ windowOp' = "set_focus_opacity_enabled"
    /\ UNCHANGED <<opacityOverride, notWindow>>

OpacityNext ==
    \/ \E focused \in BOOLEAN : HandleFocus(focused)
    \/ \E opacity \in OpacityInputs : SetOpacity(opacity)
    \/ \E opacity \in OpacityInputs : SetOpacityFocused(opacity)
    \/ \E opacity \in OpacityInputs : SetOpacityUnfocused(opacity)
    \/ \E enabled \in BOOLEAN : SetFocusOpacityEnabled(enabled)

(***************************************************************************)
(* GhostWindow: resizing  (ghost-ui/src/window/mod.rs, window/config.rs).  *)
(* A size is a pair <<width, height>>.  aspect_ratio is kept as the pair   *)
(* it was computed from, <<w, h>> for w/h; `.round()` is exact.            *)
(***************************************************************************)
MAX_TEXTURE_SIZE == 2048

\* (p/q).round() for p >= 0, q > 0: halves round away from zero.
RoundDiv(p, q) == (2 * p + q) \div (2 * q)

\* clamp_to_max_size cutting each axis on its own.
clamp_each_axis(width, height, max_size) ==
    <<Min(width, max_size), Min(height, max_size)>>

\* clamp_to_max_size (window/config.rs:12-30).
clamp_to_max_size(width, height, max_size) ==
    IF width <= max_size /\ height <= max_size THEN <<width, height>>
    ELSE IF width > height
         THEN <<max_size, Min(RoundDiv(max_size * height, width), max_size)>>
         ELSE <<Min(RoundDiv(max_size * width, height), max_size), max_size>>

\* The sizes the aspect-ratio step of handle_resize turns the clamped size
\* into (window/mod.rs:438-455).
aspect_adjusted(sz, clamped) ==
    IF sz.maintain_aspect_ratio
    THEN LET width_delta  == Abs(clamped[1] - sz.last_size[1])
             height_delta == Abs(clamped[2] - sz.last_size[2])
             aw == sz.aspect_ratio[1]
             ah == sz.aspect_ratio[2]
         IN  IF width_delta > height_delta
             THEN <<clamped[1], Max(RoundDiv(clamped[1] * ah, aw), 1)>>
             ELSE <<Max(RoundDiv(clamped[2] * aw, ah), 1), clamped[2]>>
    ELSE clamped

\* handle_resize sending the final size back to the OS whenever the aspect
\* ratio is maintained, without comparing it with the clamped size.
handle_resize_always_correcting(sz, width, height) ==
    IF width = 0 \/ height = 0
    THEN [ sizing |-> sz, clamped |-> None, set_inner_size |-> None,
           renderer_resize |-> None ]
    ELSE
      LET clamped  == clamp_to_max_size(width, height, MAX_TEXTURE_SIZE)
          adjusted == aspect_adjusted(sz, clamped)
          final    == clamp_to_max_size(adjusted[1], adjusted[2], MAX_TEXTURE_SIZE)
      IN  [ sizing |-> [sz EXCEPT !.last_size = final, !.renderer_size = final],
            clamped |-> Some(clamped),
            set_inner_size |-> IF sz.maintain_aspect_ratio
                               THEN Some(final) ELSE None,
            renderer_resize |-> Some(final) ]

\* handle_resize without the test for a zero width or height.
handle_resize_zero_unguarded(sz, width, height) ==
    LET clamped  == clamp_to_max_size(width, height, MAX_TEXTURE_SIZE)
        adjusted == aspect_adjusted(sz, clamped)
        final    == clamp_to_max_size(adjusted[1], adjusted[2], MAX_TEXTURE_SIZE)
    IN  [ sizing |-> [sz EXCEPT !.last_size = final, !.renderer_size = final],
          clamped |-> Some(clamped),
          set_inner_size |-> IF sz.maintain_aspect_ratio /\ final # clamped
                             THEN Some(final) ELSE None,
          renderer_resize |-> Some(final) ]

\* GhostWindow::handle_resize (window/mod.rs:430-475).  The result carries
\* the window, the value clamp_to_max_size gave for the request, the
\* set_inner_size issued to the OS and the renderer.resize made, if any.
handle_resize(sz, width, height) ==
    IF width = 0 \/ height = 0
    THEN [ sizing |-> sz, clamped |-> None, set_inner_size |-> None,
           renderer_resize |-> None ]
    ELSE
      LET clamped  == clamp_to_max_size(width, height, MAX_TEXTURE_SIZE)
          adjusted == aspect_adjusted(sz, clamped)
          final    == clamp_to_max_size(adjusted[1], adjusted[2], MAX_TEXTURE_SIZE)
      IN  [ sizing |-> [sz EXCEPT !.last_size = final, !.renderer_size = final],
            clamped |-> Some(clamped),
            set_inner_size |-> IF sz.maintain_aspect_ratio /\ final # clamped
                               THEN Some(final) ELSE None,
            renderer_resize |-> Some(final) ]

\* GhostWindow::new (window/mod.rs:63-124), the fields resizing uses; the
\* window is created at the clamped size.
GhostWindow_new_sizing(width, height, maintain_aspect_ratio) ==
    LET clamped == clamp_to_max_size(width, height, MAX_TEXTURE_SIZE)
    IN  [ maintain_aspect_ratio |-> maintain_aspect_ratio,
          aspect_ratio          |-> clamped,
          last_size             |-> clamped,
          renderer_size         |-> clamped ]

\* Sizes windows are configured with, and the widths and heights of the
\* Resized events they receive.
ConfiguredSizes == { <<200, 200>>, <<300, 200>>, <<3000, 1000>>, <<200, 300>>, <<1000, 3000>> }
RequestedDims == {0, 1, 200, 300, 2048, 2049, 3000, 6000}

(***************************************************************************)
(* History of the resize operations (not program state):                   *)
(*   op              the operation taken last                              *)
(*   requested       the size of the last Resized event                    *)
(*   last_before     last_size before it                                   *)
(*   clamped, set_inner_size, renderer_resize  see handle_resize           *)
(*   echoes          how many Resized events in a row, up to this one,     *)
(*                   echoed the corrective resize of the one before        *)
(***************************************************************************)
SizingHist0 ==
    [ op |-> "new", requested |-> <<0, 0>>, last_before |-> <<0, 0>>,
      clamped |-> None, set_inner_size |-> None, renderer_resize |-> None,
      echoes |-> 0 ]

\* Echoes are counted up to MaxEchoes.
MaxEchoes == 3

SizingInit ==
    /\ \E size \in ConfiguredSizes, maintain \in BOOLEAN :
         sizing = GhostWindow_new_sizing(size[1], size[2], maintain)
    /\ sizingHist = SizingHist0

\* WindowEvent::Resized(size) on the main window (window/mod.rs:1471-1474).
HandleResize(width, height) ==
    LET r == handle_resize(sizing, width, height)
    IN  /\ sizing' = r.sizing
        /\ sizingHist' = [ op |-> "resize", requested |-> <<width, height>>,
                           last_before |-> sizing.last_size,
                           clamped |-> r.clamped,
                           set_inner_size |-> r.set_inner_size,
                           renderer_resize |-> r.renderer_resize,
                           echoes |-> 0 ]
        /\ UNCHANGED notSizing

\* The OS answers the set_inner_size of the last handle_resize with a
\* Resized event of exactly that size (window/mod.rs:1471-1474).
EchoResized ==
    /\ sizingHist.op = "resize"
    /\ IsSome(sizingHist.set_inner_size)
    /\ LET size == Unwrap(sizingHist.set_inner_size)
           r == handle_resize(sizing, size[1], size[2])
       IN  /\ sizing' = r.sizing
           /\ sizingHist' = [ op |-> "resize", requested |-> size,
                              last_before |-> sizing.last_size,
                              clamped |-> r.clamped,
                              set_inner_size |-> r.set_inner_size,
                              renderer_resize |-> r.renderer_resize,
                              echoes |-> Min(sizingHist.echoes + 1, MaxEchoes) ]
    /\ UNCHANGED notSizing

\* GhostWindow::set_maintain_aspect_ratio (window/mod.rs:503-505).
SetMaintainAspectRatio(maintain) ==
    /\ sizing' = [sizing EXCEPT !.maintain_aspect_ratio = maintain]
    /\ sizingHist' = [SizingHist0 EXCEPT !.op = "set_maintain",
                                         !.last_before = sizing.last_size]
    /\ UNCHANGED notSizing

SizingNext ==
    \/ \E width \in RequestedDims, height \in RequestedDims :
         HandleResize(width, height)
    \/ EchoResized
    \/ \E maintain \in BOOLEAN : SetMaintainAspectRatio(maintain)

(***************************************************************************)
(* Animation  (ghost-ui/src/animated_skin.rs)                              *)
(* frame_duration is 1/fps in time units; current_frame counts from 0.     *)
(***************************************************************************)
PlayModes == {"Loop", "Once", "OnceAndHide", "PingPong"}

\* Animation::from_frames (animated_skin.rs:116-132); an empty frame list is
\* rejected, so frame_count >= 1.  textures[i+1]: frame i has a GPU texture.
Animation_from_frames(frame_count, frame_duration) ==
    [ frame_count      |-> frame_count,
      frame_duration   |-> frame_duration,
      play_mode        |-> "Loop",
      current_frame    |-> 0,
      time_accumulator |-> 0,
      direction        |-> 1,
      finished         |-> FALSE,
      textures         |-> [i \in 1..frame_count |-> FALSE] ]

\* advance_frame with Loop stepping past the last frame (no `% frame_count`).
advance_frame_unwrapped(a) ==
    IF a.frame_count <= 1 THEN a
    ELSE CASE a.play_mode = "Loop" ->
                [a EXCEPT !.current_frame = a.current_frame + 1]
           [] a.play_mode \in {"Once", "OnceAndHide"} ->
                IF a.current_frame < a.frame_count - 1
                THEN [a EXCEPT !.current_frame = a.current_frame + 1]
                ELSE [a EXCEPT !.finished = TRUE]
           [] a.play_mode = "PingPong" ->
                LET next == a.current_frame + a.direction
                IN  IF next < 0
                    THEN [a EXCEPT !.direction = 1, !.current_frame = 1]
                    ELSE IF next >= a.frame_count
                    THEN [a EXCEPT !.direction = -1,
                                   !.current_frame = a.frame_count - 2]
                    ELSE [a EXCEPT !.current_frame = next]

\* advance_frame with PingPong reversing onto the endpoint it stands on.
advance_frame_repeat_endpoint(a) ==
    IF a.frame_count <= 1 THEN a
    ELSE CASE a.play_mode = "Loop" ->
                [a EXCEPT !.current_frame = (a.current_frame + 1) % a.frame_count]
           [] a.play_mode \in {"Once", "OnceAndHide"} ->
                IF a.current_frame < a.frame_count - 1
                THEN [a EXCEPT !.current_frame = a.current_frame + 1]
                ELSE [a EXCEPT !.finished = TRUE]
           [] a.play_mode = "PingPong" ->
                LET next == a.current_frame + a.direction
                IN  IF next < 0
                    THEN [a EXCEPT !.direction = 1, !.current_frame = 0]
                    ELSE IF next >= a.frame_count
                    THEN [a EXCEPT !.direction = -1,
                                   !.current_frame = a.frame_count - 1]
                    ELSE [a EXCEPT !.current_frame = next]

\* Animation::advance_frame (animated_skin.rs:166-196).
advance_frame(a) ==
    IF a.frame_count <= 1 THEN a
    ELSE CASE a.play_mode = "Loop" ->
                [a EXCEPT !.current_frame = (a.current_frame + 1) % a.frame_count]
           [] a.play_mode \in {"Once", "OnceAndHide"} ->
                IF a.current_frame < a.frame_count - 1
                THEN [a EXCEPT !.current_frame = a.current_frame + 1]
                ELSE [a EXCEPT !.finished = TRUE]
           [] a.play_mode = "PingPong" ->
                LET next == a.current_frame + a.direction
                IN  IF next < 0
                    THEN [a EXCEPT !.direction = 1, !.current_frame = 1]
                    ELSE IF next >= a.frame_count
                    THEN [a EXCEPT !.direction = -1,
                                   !.current_frame = a.frame_count - 2]
                    ELSE [a EXCEPT !.current_frame = next]

\* The loop condition with `>` for `>=`.
frame_due_strict(a) == a.time_accumulator > a.frame_duration

\* The condition of the loop in Animation::update.
frame_due(a) == a.time_accumulator >= a.frame_duration

\* `while self.time_accumulator >= frame_duration { ... }`.  The result
\* carries the anim and the frame index after each advance_frame.
RECURSIVE update_loop(_, _)
update_loop(a, trace) ==
    IF frame_due(a)
    THEN LET a2 == advance_frame(
                     [a EXCEPT !.time_accumulator = a.time_accumulator - a.frame_duration])
         IN  update_loop(a2, Append(trace, a2.current_frame))
    ELSE [anim |-> a, trace |-> trace]

\* update without the test for a finished animation.
update_traced_ignoring_finished(a, delta) ==
    IF a.frame_count = 0
    THEN [anim |-> a, trace |-> <<a.current_frame>>]
    ELSE update_loop([a EXCEPT !.time_accumulator = a.time_accumulator + delta],
                     <<a.current_frame>>)

\* update starting each call from a zero accumulator.
update_traced_dropping_remainder(a, delta) ==
    IF a.finished \/ a.frame_count = 0
    THEN [anim |-> a, trace |-> <<a.current_frame>>]
    ELSE update_loop([a EXCEPT !.time_accumulator = delta],
                     <<a.current_frame>>)

\* Animation::update, with the trace of the frames it went through.
update_traced(a, delta) ==
    IF a.finished \/ a.frame_count = 0
    THEN [anim |-> a, trace |-> <<a.current_frame>>]
    ELSE update_loop([a EXCEPT !.time_accumulator = a.time_accumulator + delta],
                     <<a.current_frame>>)

Animation_update(a, delta) == update_traced(a, delta).anim

\* current_skin without the `finished && OnceAndHide` test.
current_skin_ignoring_finished(a) ==
    IF a.current_frame < a.frame_count /\ a.textures[a.current_frame + 1]
    THEN Some(a.current_frame)
    ELSE None

\* Animation::current_skin: the index of the frame given to the renderer.
Animation_current_skin(a) ==
    IF a.finished /\ a.play_mode = "OnceAndHide" THEN None
    ELSE IF a.current_frame < a.frame_count /\ a.textures[a.current_frame + 1]
         THEN Some(a.current_frame)
         ELSE None

Animation_reset(a) ==
    [a EXCEPT !.current_frame = 0, !.time_accumulator = 0, !.direction = 1,
              !.finished = FALSE]

set_play_mode(a, mode) == [a EXCEPT !.play_mode = mode]

\* Animation::init_gpu; created[i+1]: Skin::from_skin_data succeeds for
\* frame i.  A texture that exists is kept.
Animation_init_gpu(a, created) ==
    [a EXCEPT !.textures = [i \in 1..a.frame_count |-> a.textures[i] \/ created[i]]]

(***************************************************************************)
(* History of the anim operations (not program state):                *)
(*   op     the operation taken last                                       *)
(*   trace  the frame index before the last update and after each          *)
(*          advance_frame of it                                            *)
(*   steps  the number of advance_frame calls since the construction or    *)
(*          the last reset, modulo StepsModulus, while the play mode has   *)
(*          not been changed after the first of them; None otherwise       *)
(*   mark   a frame index noted in Loop mode and the time handed to update *)
(*          since, up to frame_count frame durations                       *)
(***************************************************************************)
StepsModulus(n) == IF n >= 2 THEN 2 * n * (n - 1) ELSE 1

AnimHist0 == [op |-> "new", trace |-> <<0>>, steps |-> Some(0), mark |-> None]

FrameDurations == {2, 3}

AnimInit ==
    /\ \E n \in 1..MaxFrames, fd \in FrameDurations :
         anim = Animation_from_frames(n, fd)
    /\ animHist = AnimHist0

\* Deltas handed to Animation::update: less than a frame, one frame, and
\* frame_count frames.
AnimDeltas(a) == {1, a.frame_duration, a.frame_count * a.frame_duration}

AnimUpdate(delta) ==
    LET r == update_traced(anim, delta)
        n == anim.frame_count
        taken == Len(r.trace) - 1
        full == n * anim.frame_duration
    IN  /\ anim' = r.anim
        /\ animHist' =
             [ op    |-> "update",
               trace |-> r.trace,
               steps |-> IF IsSome(animHist.steps)
                         THEN Some((Unwrap(animHist.steps) + taken) % StepsModulus(n))
                         ELSE None,
               mark  |-> IF IsSome(animHist.mark)
                            /\ Unwrap(animHist.mark).t + delta <= full
                         THEN Some([Unwrap(animHist.mark) EXCEPT !.t = @ + delta])
                         ELSE None ]
        /\ UNCHANGED notAnim

AnimReset ==
    /\ anim' = Animation_reset(anim)
    /\ animHist' = [op |-> "reset", trace |-> <<0>>, steps |-> Some(0),
                    mark |-> None]
    /\ UNCHANGED notAnim

AnimSetPlayMode(mode) ==
    /\ anim' = set_play_mode(anim, mode)
    /\ animHist' = [op |-> "set_play_mode",
                    trace |-> <<anim.current_frame>>,
                    steps |-> IF animHist.steps = Some(0) THEN Some(0) ELSE None,
                    mark |-> None]
    /\ UNCHANGED notAnim

AnimInitGpu ==
    /\ \E i \in 1..anim.frame_count : ~anim.textures[i]
    /\ \E created \in [1..anim.frame_count -> BOOLEAN] :
         anim' = Animation_init_gpu(anim, created)
    /\ animHist' = [animHist EXCEPT !.op = "init_gpu",
                                    !.trace = <<anim.current_frame>>]
    /\ UNCHANGED notAnim

\* The observer notes the current frame of a looping anim.
AnimMark ==
    /\ anim.play_mode = "Loop"
    /\ animHist.mark = None
    /\ animHist' = [animHist EXCEPT !.op = "mark",
                                    !.trace = <<anim.current_frame>>,
                                    !.mark = Some([frame |-> anim.current_frame,
                                                   t |-> 0])]
    /\ UNCHANGED <<anim, notAnim>>

AnimNext ==
    \/ \E delta \in AnimDeltas(anim) : AnimUpdate(delta)
    \/ AnimReset
    \/ \E mode \in PlayModes : AnimSetPlayMode(mode)
    \/ AnimInitGpu
    \/ AnimMark

(***************************************************************************)
(* AnimatedSkin (ghost-ui/src/animated_skin.rs:264-565): a map from        *)
(* animation states to Animations, the current and the default state.      *)
(***************************************************************************)
AnimationStates == {"Idle", "Talking", "Happy"}

\* AnimatedSkin::from_zip / from_directory / from_single_animation: every
\* state found gets an Animation at the one fps given; the skin is rejected
\* if none is found; current and default state are a loaded state (the first
\* key of the HashMap, whichever that is).  frames[s] is the number of
\* frames of state s.
AnimatedSkin_from_frames(frames, frame_duration, first) ==
    [ animations      |-> [s \in DOMAIN frames |->
                             Animation_from_frames(frames[s], frame_duration)],
      current_state   |-> first,
      default_state   |-> first,
      gpu_initialized |-> FALSE ]

\* AnimatedSkin::init_gpu; created[s][i+1]: the texture of frame i of state
\* s can be created.
AnimatedSkin_init_gpu(sk, created) ==
    IF sk.gpu_initialized THEN sk
    ELSE [sk EXCEPT !.animations =
                       [s \in DOMAIN sk.animations |->
                          Animation_init_gpu(sk.animations[s], created[s])],
                    !.gpu_initialized = TRUE]

\* set_state resetting the animation also when it is already the current
\* one.
AnimatedSkin_set_state_restarting(sk, state) ==
    IF state \in DOMAIN sk.animations
    THEN [sk EXCEPT !.animations[state] = Animation_reset(@),
                    !.current_state = state]
    ELSE sk

\* AnimatedSkin::set_state.
AnimatedSkin_set_state(sk, state) ==
    IF sk.current_state # state /\ state \in DOMAIN sk.animations
    THEN [sk EXCEPT !.animations[state] = Animation_reset(@),
                    !.current_state = state]
    ELSE sk

\* update with is_finished() read before anim.update(delta).
AnimatedSkin_update_stale_finished(sk, delta) ==
    IF sk.current_state \in DOMAIN sk.animations
    THEN LET before == sk.animations[sk.current_state]
             a == Animation_update(before, delta)
             sk1 == [sk EXCEPT !.animations[sk.current_state] = a]
         IN  IF before.finished /\ a.play_mode # "Loop"
             THEN AnimatedSkin_set_state(sk1, sk1.default_state)
             ELSE sk1
    ELSE sk

\* AnimatedSkin::update.
AnimatedSkin_update(sk, delta) ==
    IF sk.current_state \in DOMAIN sk.animations
    THEN LET a == Animation_update(sk.animations[sk.current_state], delta)
             sk1 == [sk EXCEPT !.animations[sk.current_state] = a]
         IN  IF a.finished /\ a.play_mode # "Loop"
             THEN AnimatedSkin_set_state(sk1, sk1.default_state)
             ELSE sk1
    ELSE sk

\* AnimatedSkin::current_skin: the state and frame index given to the
\* renderer.
AnimatedSkin_current_skin(sk) ==
    IF sk.current_state \in DOMAIN sk.animations
    THEN LET f == Animation_current_skin(sk.animations[sk.current_state])
         IN  IF IsSome(f) THEN Some(<<sk.current_state, Unwrap(f)>>) ELSE None
    ELSE None

\* AnimatedSkin::set_default_state.
AnimatedSkin_set_default_state(sk, state) ==
    IF state \in DOMAIN sk.animations
    THEN [sk EXCEPT !.default_state = state]
    ELSE sk

\* AnimatedSkin::play_once.
AnimatedSkin_play_once(sk, state) ==
    LET sk1 == IF state \in DOMAIN sk.animations
               THEN [sk EXCEPT !.animations[state] =
                                  set_play_mode(Animation_reset(@), "Once")]
               ELSE sk
    IN  AnimatedSkin_set_state(sk1, state)

(***************************************************************************)
(* History of the AnimatedSkin operations (not program state):             *)
(*   op          the operation taken last                                  *)
(*   state       the argument of the set_state taken last (set_state only)  *)
(*   since_play  the state of the last play_once that found its state      *)
(*               loaded and the time handed to update since, while only    *)
(*               updates followed it; the time is counted up to the        *)
(*               length of that state's animation                          *)
(***************************************************************************)
SkinHist0 == [op |-> "new", since_play |-> None]

\* The frame duration of the skin's animations (one fps for all states).
SkinFrameDuration == 2
\* The sets of states found in the archive.
LoadedSets == { {"Idle"}, {"Idle", "Talking"}, {"Talking", "Happy"} }

\* The length of the animation of `state`: all its frames, each shown for
\* one frame duration.
PlayLength(sk, state) ==
    sk.animations[state].frame_count * sk.animations[state].frame_duration

SkinInit ==
    /\ \E loaded \in LoadedSets :
         \E frames \in [loaded -> 1..MaxFrames], first \in loaded :
            animatedSkin = AnimatedSkin_from_frames(frames, SkinFrameDuration, first)
    /\ skinHist = SkinHist0

\* Texture creation succeeds for all frames or for none.
SkinCreated(sk) ==
    { [s \in DOMAIN sk.animations |->
         [i \in 1..sk.animations[s].frame_count |-> ok]] : ok \in BOOLEAN }

SkinInitGpu ==
    /\ ~animatedSkin.gpu_initialized
    /\ \E created \in SkinCreated(animatedSkin) :
         animatedSkin' = AnimatedSkin_init_gpu(animatedSkin, created)
    /\ skinHist' = [skinHist EXCEPT !.op = "init_gpu"]
    /\ UNCHANGED notSkin

SkinUpdate(delta) ==
    /\ animatedSkin' = AnimatedSkin_update(animatedSkin, delta)
    /\ skinHist' =
         [ op |-> "update",
           since_play |->
             IF IsSome(skinHist.since_play)
             THEN LET h == Unwrap(skinHist.since_play)
                  IN  Some([h EXCEPT !.t = Min(h.t + delta,
                                               PlayLength(animatedSkin, h.state))])
             ELSE None ]
    /\ UNCHANGED notSkin

SkinSetState(state) ==
    /\ animatedSkin' = AnimatedSkin_set_state(animatedSkin, state)
    /\ skinHist' = [op |-> "set_state", since_play |-> None, state |-> state]
    /\ UNCHANGED notSkin

SkinSetDefaultState(state) ==
    /\ animatedSkin' = AnimatedSkin_set_default_state(animatedSkin, state)
    /\ skinHist' = [op |-> "set_default_state", since_play |-> None]
    /\ UNCHANGED notSkin

SkinPlayOnce(state) ==
    /\ animatedSkin' = AnimatedSkin_play_once(animatedSkin, state)
    /\ skinHist' = [op |-> "play_once",
                    since_play |-> IF state \in DOMAIN animatedSkin.animations
                                   THEN Some([state |-> state, t |-> 0])
                                   ELSE None]
    /\ UNCHANGED notSkin

SkinNext ==
    \/ SkinInitGpu
    \/ \E delta \in {1, SkinFrameDuration} : SkinUpdate(delta)
    \/ \E state \in AnimationStates : SkinSetState(state)
    \/ \E state \in AnimationStates : SkinSetDefaultState(state)
    \/ \E state \in AnimationStates : SkinPlayOnce(state)

(***************************************************************************)
(* App (src/windows/main_window.rs): the skin hand-over from the still     *)
(* image shown while the background loader runs to the animated skin.      *)
(* still_skin_data, still_skin and loading_layer are TRUE for Some.        *)
(***************************************************************************)
\* App::new as main.rs:47-95 calls it: animated_skin is the skin loaded
\* synchronously, persona_meta the zip's metadata ([still_image |-> BOOLEAN]),
\* skin_load_receiver tells whether a background load was started.
App_new(animated_skin, persona_meta, skin_load_receiver) ==
    [ animated_skin    |-> animated_skin,
      load_state       |-> IF skin_load_receiver THEN "Loading"
                           ELSE IF IsSome(animated_skin) THEN "Ready"
                           ELSE "Static",
      still_skin       |-> FALSE,
      still_skin_data  |-> IsSome(persona_meta) /\ Unwrap(persona_meta).still_image,
      needs_gpu_reinit |-> FALSE,
      loading_layer    |-> IsSome(persona_meta) /\ skin_load_receiver,
      should_quit      |-> FALSE ]

\* App::init_gpu.  created: the textures of the animated skin that can be
\* created; still_created: Skin::from_skin_data succeeds for the still image.
App_init_gpu(a, created, still_created) ==
    [a EXCEPT !.animated_skin =
                 IF IsSome(a.animated_skin)
                 THEN Some(AnimatedSkin_init_gpu(Unwrap(a.animated_skin), created))
                 ELSE None,
              !.still_skin = IF a.still_skin_data /\ still_created
                             THEN TRUE ELSE a.still_skin]

\* App::set_animation_state.
App_set_animation_state(a, state) ==
    IF IsSome(a.animated_skin)
    THEN [a EXCEPT !.animated_skin =
                      Some(AnimatedSkin_set_state(Unwrap(a.animated_skin), state))]
    ELSE a

\* App::poll_tray_events.  tray: the menu command polled, of kind "None" if
\* there is none; the result carries the ChatWindowCommands sent.
App_poll_tray_events(a, tray) ==
    CASE tray.kind = "OpenChat" -> [app |-> a, chat_sent |-> <<"Show">>]
      [] tray.kind = "SetState" -> [app |-> App_set_animation_state(a, tray.state),
                                    chat_sent |-> <<>>]
      [] tray.kind = "Quit"     -> [app |-> [a EXCEPT !.should_quit = TRUE],
                                    chat_sent |-> <<>>]
      [] OTHER                  -> [app |-> a, chat_sent |-> <<>>]

\* receiver.try_recv() on the loader's channel: Some(skin) if a skin has
\* been sent and not yet taken, None while the loader runs and after it
\* ended without sending.
try_recv(ld) == IF ld.state = "sent" THEN Some(ld.skin) ELSE None

\* App::update with a failed load ending the loading state.
App_update_failure_ends_loading(a, ld, tray, delta) ==
    LET polled == App_poll_tray_events(a, tray)
        a1 == polled.app
        received == a1.load_state = "Loading" /\ IsSome(try_recv(ld))
        a2 == IF received
              THEN [a1 EXCEPT !.animated_skin = try_recv(ld),
                              !.load_state = "Ready",
                              !.needs_gpu_reinit = TRUE,
                              !.loading_layer = FALSE,
                              !.still_skin = FALSE,
                              !.still_skin_data = FALSE]
              ELSE IF a1.load_state = "Loading" /\ ld.state = "failed"
              THEN [a1 EXCEPT !.load_state = "Static",
                              !.loading_layer = FALSE]
              ELSE a1
        a3 == IF IsSome(a2.animated_skin)
              THEN [a2 EXCEPT !.animated_skin =
                                 Some(AnimatedSkin_update(Unwrap(a2.animated_skin), delta))]
              ELSE a2
    IN  [app |-> a3, received |-> received, chat_sent |-> polled.chat_sent]

\* App::update.  The result tells whether the loader's message was taken.
App_update(a, ld, tray, delta) ==
    LET polled == App_poll_tray_events(a, tray)
        a1 == polled.app
        received == a1.load_state = "Loading" /\ IsSome(try_recv(ld))
        a2 == IF received
              THEN [a1 EXCEPT !.animated_skin = try_recv(ld),
                              !.load_state = "Ready",
                              !.needs_gpu_reinit = TRUE,
                              !.loading_layer = FALSE,
                              !.still_skin = FALSE,
                              !.still_skin_data = FALSE]
              ELSE a1
        a3 == IF IsSome(a2.animated_skin)
              THEN [a2 EXCEPT !.animated_skin =
                                 Some(AnimatedSkin_update(Unwrap(a2.animated_skin), delta))]
              ELSE a2
    IN  [app |-> a3, received |-> received, chat_sent |-> polled.chat_sent]

\* App::current_skin: "still" for the still image, <<state, frame>> for a
\* frame of the animated skin.
App_current_skin(a) ==
    CASE a.load_state = "Loading" -> IF a.still_skin THEN Some("still") ELSE None
      [] a.load_state = "Ready" ->
           IF IsSome(a.animated_skin)
           THEN AnimatedSkin_current_skin(Unwrap(a.animated_skin))
           ELSE None
      [] a.load_state = "Static" -> None

\* App::prepare, the deferred GPU initialisation of a skin loaded in the
\* background.
App_prepare(a, created) ==
    IF a.needs_gpu_reinit
    THEN [a EXCEPT !.animated_skin =
                      IF IsSome(a.animated_skin)
                      THEN Some(AnimatedSkin_init_gpu(Unwrap(a.animated_skin), created))
                      ELSE None,
                   !.needs_gpu_reinit = FALSE]
    ELSE a

(***************************************************************************)
(* The run loop, run_with_app_callout_and_extra (ghost-ui/src/window/      *)
(* mod.rs:1317-1651).  The closure is called by the event loop once per    *)
(* event; an iteration of the event loop delivers NewEvents, the window    *)
(* events, MainEventsCleared, one RedrawRequested per window with a redraw *)
(* pending, RedrawEventsCleared, and then acts on control_flow.            *)
(***************************************************************************)
Wait == [kind |-> "Wait", fps |-> 0]
WaitUntil(fps) == [kind |-> "WaitUntil", fps |-> fps]
Exit == [kind |-> "Exit", fps |-> 0]
\* The event loop's control flow before the closure has run.
Poll == [kind |-> "Poll", fps |-> 0]

\* An assignment to *control_flow.  The event loop keeps Exit once it has
\* been set.
set_control_flow(rl, cf) ==
    IF rl.control_flow = Exit THEN rl ELSE [rl EXCEPT !.control_flow = cf]

\* `*control_flow = ControlFlow::Wait;` at the top of the closure
\* (mod.rs:1358-1360), run for every event.
closure_enter(rl) == set_control_flow(rl, Wait)

request_redraw(rl, w) == [rl EXCEPT !.redraw = @ \cup {w}]

MainWindowEvents ==
    {"Focused", "CursorMoved", "CursorLeft", "ButtonReleased", "Resized",
     "Moved", "CloseRequested"}

\* The handler of the main window's events that draws the window itself on
\* a focus change.
on_main_window_event_drawing(rl, event) ==
    LET rl0 == closure_enter(rl)
    IN  CASE event = "Focused" ->
               [loop |-> rl0, did |-> <<"event", "render">>, callout_sent |-> <<>>]
          [] event = "CursorMoved" ->
               [loop |-> request_redraw(rl0, "main"), did |-> <<"event">>,
                callout_sent |-> <<>>]
          [] event = "ButtonReleased" ->
               [loop |-> request_redraw(rl0, "main"), did |-> <<"event">>,
                callout_sent |-> <<[kind |-> "Say", text |-> <<"a", "a">>]>>]
          [] event = "CloseRequested" ->
               [loop |-> set_control_flow(rl0, Exit), did |-> <<"event">>,
                callout_sent |-> <<>>]
          [] OTHER ->
               [loop |-> rl0, did |-> <<"event">>, callout_sent |-> <<>>]

\* Event::WindowEvent for the main window (mod.rs:1362-1491).  Focused and
\* CursorMoved ask for a redraw; a mouse release on a button makes
\* App::on_event(ButtonClicked) send a CalloutCommand and asks for a redraw;
\* CursorLeft, Resized and Moved do not.  `did` lists the kinds of work the
\* handler does itself.
on_main_window_event(rl, event) ==
    LET rl0 == closure_enter(rl)
    IN  CASE event \in {"Focused", "CursorMoved"} ->
               [loop |-> request_redraw(rl0, "main"), did |-> <<"event">>,
                callout_sent |-> <<>>]
          [] event = "ButtonReleased" ->
               [loop |-> request_redraw(rl0, "main"), did |-> <<"event">>,
                callout_sent |-> <<[kind |-> "Say", text |-> <<"a", "a">>]>>]
          [] event = "CloseRequested" ->
               [loop |-> set_control_flow(rl0, Exit), did |-> <<"event">>,
                callout_sent |-> <<>>]
          [] OTHER ->
               [loop |-> rl0, did |-> <<"event">>, callout_sent |-> <<>>]

\* Event::WindowEvent for the callout window (mod.rs:1493-1500).
on_callout_window_event(rl, event) ==
    LET rl0 == closure_enter(rl)
    IN  [loop |-> IF event = "CloseRequested" THEN set_control_flow(rl0, Exit)
                  ELSE rl0,
         did |-> <<"event">>]

\* Event::WindowEvent for the extra window (mod.rs:1502-1507):
\* extra.on_event, which hides the chat window on CloseRequested
\* (chat_window.rs:409-411), then extra.request_redraw, which acts on a
\* visible window only (chat_window.rs:518-522).
on_extra_window_event(rl, cw, event) ==
    LET rl0 == closure_enter(rl)
        cw1 == IF event = "CloseRequested" THEN [cw EXCEPT !.visible = FALSE]
               ELSE cw
    IN  [loop |-> IF cw1.visible THEN request_redraw(rl0, "extra") ELSE rl0,
         window |-> cw1,
         did |-> <<"event">>]

\* Event::MainEventsCleared (mod.rs:1509-1556).
on_main_events_cleared(rl, a, ld, c, queue, cw, gs, chat_queue, tray, delta) ==
    LET rl0 == closure_enter(rl)
        target_fps == IF IsSome(App_current_skin(a)) THEN 24 ELSE 10
        updated == App_update(a, ld, tray, delta)
        a1 == updated.app
        co == CalloutWindowApp_update(c, queue, delta)
        ex == update_state(cw, gs, chat_queue \o updated.chat_sent)
        rl1 == IF IsSome(App_current_skin(a1)) THEN request_redraw(rl0, "main")
               ELSE rl0
        rl2 == IF co.redraw THEN request_redraw(rl1, "callout") ELSE rl1
        rl3 == IF ex.window.visible THEN request_redraw(rl2, "extra") ELSE rl2
    IN  [ loop     |-> IF a1.should_quit THEN set_control_flow(rl0, Exit)
                       ELSE set_control_flow(rl3, WaitUntil(target_fps)),
          app      |-> a1,
          received |-> updated.received,
          callout  |-> co.callout,
          window   |-> ex.window,
          state    |-> ex.state,
          did      |-> <<"update">> ]

\* Event::RedrawRequested for the main window (mod.rs:1558-1617): the GPU
\* resources are initialised on the first one, App::prepare runs, the window
\* is rendered with app.current_skin().
on_redraw_requested_main(rl, a, created, still_created) ==
    LET rl0 == closure_enter(rl)
        a1 == IF rl0.main_gpu_initialized THEN a
              ELSE App_init_gpu(a, created, still_created)
        a2 == App_prepare(a1, created)
    IN  [ loop |-> [rl0 EXCEPT !.main_gpu_initialized = TRUE,
                               !.redraw = @ \ {"main"}],
          app  |-> a2,
          init_gpu |-> ~rl0.main_gpu_initialized,
          did  |-> <<"render">> ]

\* The handler with callout_gpu_initialized never set: callout_app.init_gpu
\* is called on every RedrawRequested of the callout window.
on_redraw_requested_reinitialising(rl, w) ==
    LET rl0 == closure_enter(rl)
    IN  [ loop |-> [rl0 EXCEPT !.redraw = @ \ {w}],
          init_gpu |-> (w = "callout" /\ ~rl0.callout_gpu_initialized),
          did  |-> <<"render">> ]

\* Event::RedrawRequested for the callout window (mod.rs:1619-1640) and for
\* the extra window (mod.rs:1642-1646).  init_gpu: callout_app.init_gpu is
\* called.
on_redraw_requested(rl, w) ==
    LET rl0 == closure_enter(rl)
    IN  [ loop |-> [rl0 EXCEPT !.callout_gpu_initialized = @ \/ w = "callout",
                               !.redraw = @ \ {w}],
          init_gpu |-> (w = "callout" /\ ~rl0.callout_gpu_initialized),
          did  |-> <<"render">> ]

(***************************************************************************)
(* History of the current iteration of the run loop (not program state):   *)
(*   did      the kinds of work done in the iteration so far: "event" for  *)
(*            a window event handled, "update" for the advance step,       *)
(*            "render" for a window rendered                               *)
(*   ordered  in the iteration, so far, no event was handled after the     *)
(*            advance step began, the advance step ran once, and nothing   *)
(*            was rendered before the advance step had finished            *)
(* of the GPU initialisation of the main and the callout window:           *)
(*   gpu.inits    the number of init_gpu calls made for the window, counted *)
(*                up to 2                                                   *)
(*   gpu.redrawn  the windows that have had a RedrawRequested handled       *)
(*   gpu.unready  the windows rendered when init_gpu had not been called    *)
(*   gpu.again    the windows that had a RedrawRequested handled after      *)
(*                their init_gpu                                            *)
(* and of the skin hand-over:                                              *)
(*   quiet    the number of iterations completed since App::update took    *)
(*            the loader's skin, counted up to HandoverTicks, while the    *)
(*            main window got no event and no exposure; None otherwise     *)
(***************************************************************************)
HandoverTicks == 3
GpuHist0 == [inits |-> [w \in {"main", "callout"} |-> 0], redrawn |-> {},
             unready |-> {}, again |-> {}]
LoopHist0 == [did |-> {}, ordered |-> TRUE, quiet |-> None, gpu |-> GpuHist0]

\* The GPU history after the RedrawRequested handler of window w, which
\* called init_gpu or not and then rendered the window.
GpuHistAfter(g, w, init_gpu) ==
    IF w \notin DOMAIN g.inits THEN g
    ELSE LET inits == IF init_gpu THEN [g.inits EXCEPT ![w] = Min(@ + 1, 2)]
                      ELSE g.inits
         IN  [ inits   |-> inits,
               redrawn |-> g.redrawn \cup {w},
               unready |-> IF inits[w] = 0 THEN g.unready \cup {w} ELSE g.unready,
               again   |-> IF g.inits[w] >= 1 THEN g.again \cup {w} ELSE g.again ]

\* The history after a handler that did the work listed in `did`.
RECURSIVE LoopHistAfter(_, _)
LoopHistAfter(h, did) ==
    IF did = <<>> THEN h
    ELSE LET k == Head(did)
             in_order == IF k = "render" THEN "update" \in h.did
                         ELSE h.did \subseteq {"event"}
         IN  LoopHistAfter([h EXCEPT !.did = @ \cup {k}, !.ordered = @ /\ in_order],
                           Tail(did))

\* The animated skin the background loader or the synchronous load builds.
LoadedSkin ==
    AnimatedSkin_from_frames([s \in {"Idle", "Talking"} |->
                                 IF s = "Idle" THEN 2 ELSE 1],
                             SkinFrameDuration, "Idle")
\* Texture creation succeeds for all frames or for none.
LoopCreated == SkinCreated(LoadedSkin)

\* The three ways main.rs:47-95 sets the app up: a .persona.zip with or
\* without a still image, loaded in the background; an animation directory
\* loaded at once; a static image.
AppSetups ==
    { [animated_skin |-> None, persona_meta |-> Some([still_image |-> TRUE]),
       skin_load_receiver |-> TRUE],
      [animated_skin |-> None, persona_meta |-> Some([still_image |-> FALSE]),
       skin_load_receiver |-> TRUE],
      [animated_skin |-> Some(LoadedSkin), persona_meta |-> None,
       skin_load_receiver |-> FALSE],
      [animated_skin |-> None, persona_meta |-> None,
       skin_load_receiver |-> FALSE] }

RunLoop0 ==
    [ phase |-> "init", control_flow |-> Poll, main_gpu_initialized |-> FALSE,
      callout_gpu_initialized |-> FALSE, redraw |-> {} ]

LoopInit ==
    /\ \E setup \in AppSetups :
         /\ app = App_new(setup.animated_skin, setup.persona_meta,
                          setup.skin_load_receiver)
         /\ loader = [state |-> IF setup.skin_load_receiver THEN "running"
                                ELSE "none",
                      skin |-> LoadedSkin]
    /\ runLoop = RunLoop0
    /\ loopHist = LoopHist0

\* The parts of the state no step of the run loop touches.
loopOthers == <<calloutHist, osPos, chatEchoes, snapHist, windowVars, animVars, textVars,
                sizingVars, skinVars>>

\* The loader thread ends (main.rs:63-78): from_zip succeeded and the skin
\* is sent, or it failed and the sender is dropped with nothing sent.
LoaderEnds(ok) ==
    /\ loader.state = "running"
    /\ loader' = [loader EXCEPT !.state = IF ok THEN "sent" ELSE "failed"]
    /\ UNCHANGED <<app, runLoop, loopHist, callout, cmdQueue, ghostState,
                   chatWindow, chatQueue, loopOthers>>

\* The event loop starts an iteration (Event::NewEvents): at start-up, when
\* an event arrives, or when the deadline of WaitUntil is reached.
StartCauses == {"Init", "WaitCancelled", "ResumeTimeReached"}
LoopNewEvents(cause) ==
    /\ runLoop.phase \in {"init", "waiting"}
    /\ runLoop.control_flow # Exit
    /\ (cause = "Init") <=> (runLoop.phase = "init")
    /\ (cause = "ResumeTimeReached") => (runLoop.control_flow.kind = "WaitUntil")
    /\ runLoop' = [closure_enter(runLoop) EXCEPT !.phase = "events"]
    /\ loopHist' = [LoopHist0 EXCEPT !.quiet = loopHist.quiet,
                                     !.gpu = loopHist.gpu]
    /\ UNCHANGED <<app, loader, callout, cmdQueue, ghostState, chatWindow,
                   chatQueue, loopOthers>>

LoopMainWindowEvent(event) ==
    /\ runLoop.phase = "events"
    /\ LET r == on_main_window_event(runLoop, event)
       IN  /\ Len(cmdQueue) + Len(r.callout_sent) <= MaxQueue
           /\ runLoop' = r.loop
           /\ cmdQueue' = cmdQueue \o r.callout_sent
           /\ loopHist' = [LoopHistAfter(loopHist, r.did) EXCEPT !.quiet = None]
    /\ UNCHANGED <<app, loader, callout, ghostState, chatWindow, chatQueue,
                   loopOthers>>

LoopCalloutWindowEvent(event) ==
    /\ runLoop.phase = "events"
    /\ LET r == on_callout_window_event(runLoop, event)
       IN  /\ runLoop' = r.loop
           /\ loopHist' = LoopHistAfter(loopHist, r.did)
    /\ UNCHANGED <<app, loader, callout, cmdQueue, ghostState, chatWindow,
                   chatQueue, loopOthers>>

LoopExtraWindowEvent(event) ==
    /\ runLoop.phase = "events"
    /\ LET r == on_extra_window_event(runLoop, chatWindow, event)
       IN  /\ runLoop' = r.loop
           /\ chatWindow' = r.window
           /\ loopHist' = LoopHistAfter(loopHist, r.did)
    /\ UNCHANGED <<app, loader, callout, cmdQueue, ghostState, chatQueue,
                   loopOthers>>

\* The windowing system asks for a redraw of the main window on its own
\* account (the window is shown for the first time, or uncovered).
LoopExposed ==
    /\ runLoop.phase = "events"
    /\ "main" \notin runLoop.redraw
    /\ runLoop' = request_redraw(runLoop, "main")
    /\ loopHist' = [loopHist EXCEPT !.quiet = None]
    /\ UNCHANGED <<app, loader, callout, cmdQueue, ghostState, chatWindow,
                   chatQueue, loopOthers>>

\* The time a tick measures since the previous one: 100 ms.
LoopDeltas == {2}

TrayCommands ==
    { [kind |-> "None", state |-> "Idle"],
      [kind |-> "OpenChat", state |-> "Idle"],
      [kind |-> "SetState", state |-> "Idle"],
      [kind |-> "SetState", state |-> "Talking"],
      [kind |-> "Quit", state |-> "Idle"] }

LoopMainEventsCleared(tray, delta) ==
    /\ runLoop.phase = "events"
    /\ LET r == on_main_events_cleared(runLoop, app, loader, callout, cmdQueue,
                                       chatWindow, ghostState, chatQueue,
                                       tray, delta)
       IN  /\ runLoop' = [r.loop EXCEPT !.phase = "redraws"]
           /\ app' = r.app
           /\ loader' = IF r.received THEN [loader EXCEPT !.state = "received"]
                        ELSE loader
           /\ callout' = r.callout
           /\ cmdQueue' = <<>>
           /\ chatWindow' = r.window
           /\ ghostState' = r.state
           /\ chatQueue' = <<>>
           /\ loopHist' = [LoopHistAfter(loopHist, r.did) EXCEPT
                             !.quiet = IF r.received THEN Some(0) ELSE @]
    /\ UNCHANGED loopOthers

LoopRedrawRequestedMain ==
    /\ runLoop.phase = "redraws"
    /\ "main" \in runLoop.redraw
    /\ \E created \in LoopCreated, still_created \in BOOLEAN :
         LET r == on_redraw_requested_main(runLoop, app, created, still_created)
         IN  /\ runLoop' = r.loop
             /\ app' = r.app
             /\ loopHist' = [LoopHistAfter(loopHist, r.did) EXCEPT
                               !.gpu = GpuHistAfter(@, "main", r.init_gpu)]
    /\ UNCHANGED <<loader, callout, cmdQueue, ghostState, chatWindow, chatQueue,
                   loopOthers>>

LoopRedrawRequested(w) ==
    /\ runLoop.phase = "redraws"
    /\ w \in runLoop.redraw
    /\ LET r == on_redraw_requested(runLoop, w)
       IN  /\ runLoop' = r.loop
           /\ loopHist' = [LoopHistAfter(loopHist, r.did) EXCEPT
                             !.gpu = GpuHistAfter(@, w, r.init_gpu)]
    /\ UNCHANGED <<app, loader, callout, cmdQueue, ghostState, chatWindow,
                   chatQueue, loopOthers>>

\* Event::RedrawEventsCleared (the closure's `_ => ()` arm), after which the
\* event loop acts on control_flow: it ends on Exit and waits otherwise.
LoopRedrawEventsCleared ==
    /\ runLoop.phase = "redraws"
    /\ runLoop.redraw = {}
    /\ LET rl0 == closure_enter(runLoop)
       IN  runLoop' = [rl0 EXCEPT !.phase = IF rl0.control_flow = Exit
                                            THEN "exited" ELSE "waiting"]
    /\ loopHist' = [loopHist EXCEPT
                      !.quiet = IF IsSome(@)
                                THEN Some(Min(Unwrap(@) + 1, HandoverTicks))
                                ELSE @]
    /\ UNCHANGED <<app, loader, callout, cmdQueue, ghostState, chatWindow,
                   chatQueue, loopOthers>>

\* The steps the event loop takes by itself.
LoopTick ==
    \/ \E cause \in StartCauses : LoopNewEvents(cause)
    \/ \E tray \in TrayCommands, delta \in LoopDeltas :
         LoopMainEventsCleared(tray, delta)
    \/ LoopRedrawRequestedMain
    \/ \E w \in {"callout", "extra"} : LoopRedrawRequested(w)
    \/ LoopRedrawEventsCleared

LoopNext ==
    \/ LoopTick
    \/ \E ok \in BOOLEAN : LoaderEnds(ok)
    \/ \E event \in MainWindowEvents : LoopMainWindowEvent(event)
    \/ \E event \in {"CloseRequested", "Focused"} : LoopCalloutWindowEvent(event)
    \/ \E event \in {"CloseRequested", "Focused"} : LoopExtraWindowEvent(event)
    \/ LoopExposed

(***************************************************************************)
(* Specifications.  Each one drives one component and leaves the others    *)
(* in their initial state.                                                 *)
(***************************************************************************)
vars == <<callout, cmdQueue, calloutHist,
          ghostState, chatWindow, chatQueue, osPos, chatEchoes, snapHist,
          window, windowOp, opacityOverride, anim, animHist,
          animator, animatorHist,
          sizing, sizingHist,
          animatedSkin, skinHist,
          app, loader, runLoop, loopHist>>

CalloutIdle ==
    /\ callout = Callout_new([delay |-> 0, fade_in |-> 3, fade_out |-> 3,
                              duration |-> None],
                             [kind |-> "Instant", upi |-> 2])
    /\ cmdQueue = <<>>
    /\ calloutHist = CalloutHist0

SnapIdle ==
    LET gs == GhostState_new(<<50, 0>>)
    IN  /\ ghostState = gs
        /\ chatWindow = [visible |-> FALSE, was_visible |-> FALSE]
        /\ chatQueue = <<>>
        /\ chatEchoes = {}
        /\ osPos = [ main |-> MainStart,
                     callout |-> Add(MainStart, CalloutOffset),
                     callout_offset |-> CalloutOffset ]
        /\ snapHist = SnapHist0

WindowIdle ==
    /\ window = GhostWindow_new([click_through |-> FALSE, alpha_hit_test |-> TRUE,
                                 alpha_threshold |-> DEFAULT_ALPHA_THRESHOLD,
                                 opacity_focused |-> 100, opacity_unfocused |-> 70,
                                 focus_opacity_enabled |-> TRUE],
                                <<2, 2>>)
    /\ windowOp = "new"
    /\ opacityOverride = FALSE

AnimIdle ==
    /\ anim = Animation_from_frames(1, 2)
    /\ animHist = AnimHist0

TextIdle ==
    /\ animator = TextAnimator_new(<<"a", "a">>, [kind |-> "Instant", upi |-> 2])
    /\ animatorHist = AnimatorHist0

SizingIdle ==
    /\ sizing = GhostWindow_new_sizing(200, 200, TRUE)
    /\ sizingHist = SizingHist0
LoopIdle ==
    /\ app = App_new(None, None, FALSE)
    /\ loader = [state |-> "none", skin |-> LoadedSkin]
    /\ runLoop = RunLoop0
    /\ loopHist = LoopHist0
SkinIdle ==
    /\ animatedSkin = AnimatedSkin_from_frames([s \in {"Idle"} |-> 1], SkinFrameDuration,
                                       "Idle")
    /\ skinHist = SkinHist0

\* The callout driven through its own interface.
Init == CalloutInit /\ SnapIdle /\ WindowIdle /\ AnimIdle /\ TextIdle /\ SizingIdle /\ SkinIdle /\ LoopIdle

Next ==
    \/ \E kind \in {"Say", "Think", "Scream"}, text \in Texts :
         CalloutShow(kind, text)
    \/ CalloutHide
    \/ \E delta \in Deltas : CalloutUpdateWithin(delta, MaxElapsed)
    \/ CalloutSkip

Spec == Init /\ [][Next]_vars

\* One callout with the timing delay=0, fade_in=0.15s, duration=2s,
\* fade_out=0.15s, shown and then updated until well after its auto-hide.
C1Timing == [delay |-> 0, fade_in |-> 3, fade_out |-> 3, duration |-> Some(40)]

TimelineInit ==
    /\ \E animation \in TextAnimations : callout = Callout_new(C1Timing, animation)
    /\ cmdQueue = <<>>
    /\ calloutHist = CalloutHist0
    /\ SnapIdle
    /\ WindowIdle
    /\ AnimIdle
    /\ TextIdle
    /\ SizingIdle
    /\ SkinIdle
    /\ LoopIdle

TimelineNext ==
    \/ \E text \in Texts : CalloutShow("Say", text)
    \/ \E delta \in Deltas : CalloutUpdateWithin(delta, MaxTimeline)

SpecTimeline == TimelineInit /\ [][TimelineNext]_vars

\* The callout window: the main app sends commands, the run loop ticks.
\* create_callout_from_config (callout_window.rs:92-130) builds the callout
\* with the default timing and an optional duration.
WindowTimings ==
    { [delay |-> 0, fade_in |-> 3, fade_out |-> 3, duration |-> Some(6)],
      [delay |-> 0, fade_in |-> 3, fade_out |-> 3, duration |-> None] }

CalloutWindowInit ==
    /\ \E timing \in WindowTimings, animation \in TextAnimations :
         callout = Callout_new(timing, animation)
    /\ cmdQueue = <<>>
    /\ calloutHist = CalloutHist0
    /\ SnapIdle
    /\ WindowIdle
    /\ AnimIdle
    /\ TextIdle
    /\ SizingIdle
    /\ SkinIdle
    /\ LoopIdle

CalloutWindowNext ==
    \/ \E cmd \in CalloutCommands : SendCallout(cmd)
    \/ \E delta \in Deltas : CalloutAppUpdate(delta)

SpecCalloutWindow == CalloutWindowInit /\ [][CalloutWindowNext]_vars

\* The main window is moved, the chat window is commanded, dragged, resized.
SnapSpecInit == CalloutIdle /\ SnapInit /\ WindowIdle /\ AnimIdle /\ TextIdle /\ SizingIdle /\ SkinIdle /\ LoopIdle

SpecSnap == SnapSpecInit /\ [][SnapNext]_vars

\* The main window receives focus and cursor events and is given sprites.
WindowSpecInit == CalloutIdle /\ SnapIdle /\ WindowInit /\ AnimIdle /\ TextIdle /\ SizingIdle /\ SkinIdle /\ LoopIdle

SpecWindow == WindowSpecInit /\ [][WindowNext]_vars

\* The opacity of one window is set, overridden and driven by focus.
OpacitySpecInit == CalloutIdle /\ SnapIdle /\ OpacityInit /\ AnimIdle /\ TextIdle /\ SizingIdle /\ SkinIdle /\ LoopIdle

SpecOpacity == OpacitySpecInit /\ [][OpacityNext]_vars

\* One animation is updated, reset, switched between play modes.
AnimSpecInit == CalloutIdle /\ SnapIdle /\ WindowIdle /\ AnimInit /\ TextIdle /\ SizingIdle /\ SkinIdle /\ LoopIdle

SpecAnimation == AnimSpecInit /\ [][AnimNext]_vars

\* One TextAnimator is updated, skipped, reset.
TextSpecInit == CalloutIdle /\ SnapIdle /\ WindowIdle /\ AnimIdle /\ TextInit /\ SizingIdle /\ SkinIdle /\ LoopIdle

SpecText == TextSpecInit /\ [][TextNext]_vars

\* One window receives Resized events.
SizingSpecInit ==
    CalloutIdle /\ SnapIdle /\ WindowIdle /\ AnimIdle /\ TextIdle /\ SizingInit /\ SkinIdle /\ LoopIdle

SpecSizing == SizingSpecInit /\ [][SizingNext]_vars
\* One AnimatedSkin is updated and switched between its states.
SkinSpecInit ==
    /\ CalloutIdle /\ SnapIdle /\ WindowIdle /\ AnimIdle /\ TextIdle /\ SizingIdle
    /\ SkinInit /\ LoopIdle
SpecSkin == SkinSpecInit /\ [][SkinNext]_vars
\* The run loop with the app, the callout window and the chat window.
\* The callout is the one create_callout_from_config builds with a duration,
\* so that it hides by itself.
LoopSpecInit ==
    /\ callout = Callout_new([delay |-> 0, fade_in |-> 3, fade_out |-> 3,
                              duration |-> Some(6)],
                             [kind |-> "Instant", upi |-> 2])
    /\ cmdQueue = <<>>
    /\ calloutHist = CalloutHist0
    /\ SnapIdle /\ WindowIdle /\ AnimIdle /\ TextIdle /\ SizingIdle
    /\ SkinIdle /\ LoopInit
SpecLoop == LoopSpecInit /\ [][LoopNext]_vars

(***************************************************************************)
(* C1                                                                      *)
(***************************************************************************)
\* The case of C1: the callout with the C1 timing was shown and has since
\* only been updated.
C1Case(c, h) == c.timing = C1Timing /\ h.onlyUpdated

\* The opacity C1 gives for the time t since the show, where it fixes one:
\* 0 at t = 0, 1 during [0.15s, 2.15s), 0 from 2.30s on.
C1Levels(c, h) ==
    LET fi == c.timing.fade_in
        fo == c.timing.fade_out
        d  == Unwrap(c.timing.duration)
    IN  /\ h.t = 0 => OpacityNum(c) = 0
        /\ (fi <= h.t /\ h.t < fi + d) => OpacityNum(c) = OpacityDen(c)
        /\ h.t >= fi + d + fo => OpacityNum(c) = 0

\* C1 (as claimed): for a callout with delay=0, fade_in=0.15s, duration=2s,
\* fade_out=0.15s that is shown at t=0 and then only updated, opacity() is 0
\* at t=0, strictly increasing during [0,0.15), exactly 1 during
\* [0.15,2.15), strictly decreasing during [2.15,2.30) and 0 thereafter.
C1_OpacityTimeline ==
    [][ C1Case(callout', calloutHist') =>
          LET fi == C1Timing.fade_in
              fo == C1Timing.fade_out
              d  == Unwrap(C1Timing.duration)
              t  == calloutHist'.t
              up == calloutHist'.op = "update"
          IN  /\ C1Levels(callout', calloutHist')
              /\ (up /\ t < fi) =>
                   OpacityNum(callout') * OpacityDen(callout)
                     > OpacityNum(callout) * OpacityDen(callout')
              /\ (up /\ fi + d < t /\ t < fi + d + fo) =>
                   OpacityNum(callout') * OpacityDen(callout)
                     < OpacityNum(callout) * OpacityDen(callout') ]_vars

(***************************************************************************)
(* C2                                                                      *)
(***************************************************************************)
\* C2 (as claimed): every CalloutCommand queued on the channel before a tick
\* is applied to the Callout during that tick's CalloutWindowApp::update, in
\* send order; none is discarded, whatever the number queued.
C2_AllQueuedApplied ==
    calloutHist.op = "app_update" => calloutHist.applied = calloutHist.queued

(***************************************************************************)
(* C3: when the primary window moves to new_pos, every snapped satellite   *)
(* is repositioned to new_pos + its scaled offset and the target is        *)
(* recorded: the callout window on the primary Moved event, the chat       *)
(* window on the next update tick while visible and snapped.               *)
(***************************************************************************)
C3_SnappedSatellitesFollow ==
    /\ snapHist.op = "main_moved"
         => osPos.callout = Add(osPos.main, osPos.callout_offset)
    /\ (snapHist.op = "chat_update" /\ chatWindow.visible /\ ghostState.chat_snapped)
         => ghostState.chat_last_set_pos
              = Add(osPos.main, ghostState.scaled_extra_offset)

\* The observed position deviates from `last` by more than the unsnap
\* tolerance on an axis.
BeyondUnsnapTolerance(position, last) ==
    \/ Abs(position[1] - last[1]) > unsnap_tolerance
    \/ Abs(position[2] - last[2]) > unsnap_tolerance

\* While the chat window stays unsnapped no operation repositions it.
NoRepositionWhileUnsnapped ==
    (~ghostState.chat_snapped /\ ~ghostState'.chat_snapped)
       => snapHist'.set_position = <<>>

(***************************************************************************)
(* C4, as claimed: a snapped chat window observing its own Moved event     *)
(* beyond the unsnap tolerance from its last programmatic position becomes *)
(* unsnapped, and while it stays unsnapped neither a primary move nor an   *)
(* update tick repositions it.                                             *)
(***************************************************************************)
C4_UnsnapOnAnyFarMove ==
    [][ /\ ( /\ snapHist'.op = "chat_moved"
             /\ ghostState.chat_snapped
             /\ BeyondUnsnapTolerance(snapHist'.observed,
                                      ghostState.chat_last_set_pos) )
           => ~ghostState'.chat_snapped
        /\ NoRepositionWhileUnsnapped ]_vars

(***************************************************************************)
(* C4, amended: a snapped chat window with no resize suppression pending   *)
(* that observes its own Moved event beyond the unsnap tolerance from its  *)
(* last programmatic position becomes unsnapped, and while it stays        *)
(* unsnapped neither a primary move nor an update tick repositions it.     *)
(***************************************************************************)
C4_UnsnapUnlessJustResized ==
    [][ /\ ( /\ snapHist'.op = "chat_moved"
             /\ ghostState.chat_snapped
             /\ ~ghostState.chat_just_resized
             /\ BeyondUnsnapTolerance(snapHist'.observed,
                                      ghostState.chat_last_set_pos) )
           => ~ghostState'.chat_snapped
        /\ NoRepositionWhileUnsnapped ]_vars

\* A visible snapped chat window, placed at its anchor, has observed itself
\* at (400,100) and is unsnapped.
C4_Witness ==
    /\ snapHist.op = "chat_moved"
    /\ snapHist.observed = FarAway
    /\ snapHist.was_snapped
    /\ ~ghostState.chat_snapped
    /\ chatWindow.visible
    /\ ghostState.chat_last_set_pos = SnapPoint(ghostState)

(***************************************************************************)
(* C5: with alpha_hit_test enabled and click_through disabled, whenever    *)
(* the window is unfocused the click-through value last requested from the *)
(* platform is false.                                                      *)
(***************************************************************************)
C5_UnfocusedNeverClickThrough ==
    (window.config.alpha_hit_test /\ ~window.config.click_through
       /\ ~window.is_focused)
      => ~window.ignore_cursor_events

\* An unfocused window whose cursor has just moved onto a transparent pixel
\* of the loaded sprite.
C5_Witness ==
    /\ window.config.alpha_hit_test
    /\ ~window.config.click_through
    /\ ~window.is_focused
    /\ windowOp = "cursor_moved"
    /\ IsSome(window.skin)
    /\ ~hit_test_at_cursor(window)

\* The cursor position, scaled by sprite_dim/window_dim, falls on a pixel of
\* the sprite and that pixel's alpha is greater than the threshold.
OnOpaqueSpritePixel(w) ==
    LET cursor_pos == Unwrap(w.cursor_position)
        skin == Unwrap(w.skin)
        sx == cursor_pos[1] * skin.width
        sy == cursor_pos[2] * skin.height
    IN  /\ cursor_pos[1] >= 0
        /\ cursor_pos[2] >= 0
        /\ sx < skin.width * w.last_size[1]
        /\ sy < skin.height * w.last_size[2]
        /\ skin.alpha_data[(sy \div w.last_size[2]) * skin.width
                             + (sx \div w.last_size[1]) + 1]
             > w.config.alpha_threshold

(***************************************************************************)
(* C6: with alpha_hit_test enabled and a sprite loaded, the hit test at a  *)
(* cursor position reports clickable exactly when the scaled position      *)
(* falls on a sprite pixel with alpha above the threshold; positions that  *)
(* map outside the sprite on any side, negative ones included, are not     *)
(* clickable.                                                              *)
(***************************************************************************)
C6_ClickableIffOpaquePixel ==
    ( /\ window.config.alpha_hit_test
      /\ ~window.config.click_through
      /\ IsSome(window.skin)
      /\ IsSome(window.cursor_position) )
      => (should_handle_click(window) <=> OnOpaqueSpritePixel(window))

(***************************************************************************)
(* C7: while no sprite is loaded (click_through false, alpha_hit_test      *)
(* enabled) the window is solid: should_handle_click is true and           *)
(* click-through = true has not been requested from the platform, also     *)
(* when the cursor position is unknown.                                    *)
(***************************************************************************)
C7_NoSpriteIsSolid ==
    (window.config.alpha_hit_test /\ ~window.config.click_through
       /\ ~IsSome(window.skin))
      => (should_handle_click(window) /\ ~window.ignore_cursor_events)

\* The triangle wave 0,1,...,n-1,n-2,...,1,0,1,... at step k, for n >= 2.
PingPongIndex(k, n) ==
    LET r == k % (2 * (n - 1))
    IN  IF r <= n - 1 THEN r ELSE 2 * (n - 1) - r

(***************************************************************************)
(* C8: in PingPong with N >= 2 frames starting at index 0 the steps visit  *)
(* 0,1,...,N-1,N-2,...,1,0,1,...: the index after k steps is the triangle  *)
(* wave at k, and every step of an update changes the index by exactly 1.  *)
(***************************************************************************)
C8_PingPongTriangle ==
    (anim.play_mode = "PingPong" /\ anim.frame_count >= 2)
      => /\ IsSome(animHist.steps)
              => anim.current_frame
                   = PingPongIndex(Unwrap(animHist.steps), anim.frame_count)
         /\ animHist.op = "update"
              => \A i \in 1..(Len(animHist.trace) - 1) :
                    Abs(animHist.trace[i + 1] - animHist.trace[i]) = 1

\* Three frames, five steps from index 0: 0,1,2,1,0 and on to 1, the last
\* update having taken several steps.
C8_Witness ==
    /\ anim.play_mode = "PingPong"
    /\ anim.frame_count = 3
    /\ animHist.op = "update"
    /\ animHist.steps = Some(5)
    /\ Len(animHist.trace) >= 3
    /\ anim.current_frame = 1
    /\ anim.direction = 1

C10_NoneAtLastIndex ==
    (anim.play_mode = "OnceAndHide" /\ anim.textures[anim.current_frame + 1]
       /\ anim.current_frame = anim.frame_count - 1)
      => Animation_current_skin(anim) = None

(***************************************************************************)
(* C10, amended: in OnceAndHide, current_skin returns none once `finished` *)
(* is set, which happens on a step attempted with the index already at     *)
(* frame_count-1 and never with a single frame; until then the frame at    *)
(* the current index, the last one included, is what the renderer gets if  *)
(* its texture exists.                                                     *)
(***************************************************************************)
C10_NoneOnceFinished ==
    anim.play_mode = "OnceAndHide"
      => /\ anim.finished
              => /\ Animation_current_skin(anim) = None
                 /\ anim.current_frame = anim.frame_count - 1
                 /\ anim.frame_count >= 2
         /\ (~anim.finished /\ anim.textures[anim.current_frame + 1])
              => Animation_current_skin(anim) = Some(anim.current_frame)

\* A loaded OnceAndHide animation that an update has just finished.
C10_Witness ==
    /\ anim.play_mode = "OnceAndHide"
    /\ anim.textures[anim.current_frame + 1]
    /\ anim.finished
    /\ animHist.op = "update"
    /\ anim.current_frame = anim.frame_count - 1

\* The case of C11 and C12: the animator has been updated, and not skipped,
\* since its construction or reset.
UpdatedOnly(kind) ==
    /\ animator.animation.kind = kind
    /\ animatorHist.op = "update"
    /\ ~animatorHist.skipped

(***************************************************************************)
(* C11: for Typewriter{cps} and a text of length L, after updates whose    *)
(* deltas total t the visible text is the first min(floor(t*cps), L)       *)
(* characters, and is_complete() is true exactly when that count has       *)
(* reached L.                                                              *)
(***************************************************************************)
C11_TypewriterReveal ==
    UpdatedOnly("Typewriter")
      => LET L == Len(animator.full_text)
             n == animatorHist.t \div animator.animation.upi
         IN  /\ TextAnimator_visible_text(animator)
                  = SubSeq(animator.full_text, 1, Min(n, L))
             /\ animator.is_complete <=> (n >= L)

\* Three characters at two units per character, five units in: two visible.
C11_Witness ==
    /\ UpdatedOnly("Typewriter")
    /\ Len(animator.full_text) = 3
    /\ animator.animation.upi = 2
    /\ animatorHist.t = 5
    /\ animator.visible_chars = 2
    /\ ~animator.is_complete

\* The 1-based position of the last character of the k-th word of the text
\* (words: maximal runs of non-whitespace characters), 0 if there is none.
RECURSIVE EndOfWord(_, _, _)
EndOfWord(text, k, i) ==
    IF i > Len(text) THEN 0
    ELSE IF /\ ~IsWhitespace(text[i])
            /\ (i = Len(text) \/ IsWhitespace(text[i + 1]))
         THEN IF k = 1 THEN i ELSE EndOfWord(text, k - 1, i + 1)
         ELSE EndOfWord(text, k, i + 1)

WordCount(text) ==
    Cardinality({ i \in 1..Len(text) :
                    /\ ~IsWhitespace(text[i])
                    /\ (i = Len(text) \/ IsWhitespace(text[i + 1])) })

(***************************************************************************)
(* C12: for WordByWord{wps}, after updates whose deltas total t, with      *)
(* k = floor(t*wps): k = 0 shows the empty string and 1 <= k <= number of  *)
(* words shows the text from its start through the last character of the  *)
(* k-th word, without the whitespace after it.                             *)
(***************************************************************************)
C12_WordByWordReveal ==
    UpdatedOnly("WordByWord")
      => LET k == animatorHist.t \div animator.animation.upi
         IN  /\ k = 0 => TextAnimator_visible_text(animator) = <<>>
             /\ (1 <= k /\ k <= WordCount(animator.full_text))
                  => TextAnimator_visible_text(animator)
                       = SubSeq(animator.full_text, 1,
                                EndOfWord(animator.full_text, k, 1))

\* "a a" with the first word due: "a" is visible, the blank is not.
C12_Witness ==
    /\ UpdatedOnly("WordByWord")
    /\ animator.full_text = <<"a", " ", "a">>
    /\ animatorHist.t \div animator.animation.upi = 1
    /\ TextAnimator_visible_text(animator) = <<"a">>

(***************************************************************************)
(* C13: for every requested size (w,h) with w > 2048 or h > 2048,          *)
(* clamp_to_max_size returns (w',h') with both components <= 2048, the     *)
(* larger requested axis mapped to exactly 2048 and the other axis within  *)
(* one pixel of the exactly proportional value; sizes within the ceiling   *)
(* are returned unchanged.                                                 *)
(***************************************************************************)
C13_ClampProportional ==
    (sizingHist.op = "resize" /\ IsSome(sizingHist.clamped))
      => LET w  == sizingHist.requested[1]
             h  == sizingHist.requested[2]
             cw == Unwrap(sizingHist.clamped)[1]
             ch == Unwrap(sizingHist.clamped)[2]
             M  == MAX_TEXTURE_SIZE
         IN  IF w <= M /\ h <= M
             THEN <<cw, ch>> = <<w, h>>
             ELSE /\ cw <= M /\ ch <= M
                  /\ w >= h => (cw = M /\ Abs(ch * w - M * h) <= w)
                  /\ h >= w => (ch = M /\ Abs(cw * h - M * w) <= h)

\* A request of 3000x2049 clamped to 2048x1399.
C13_Witness ==
    /\ sizingHist.op = "resize"
    /\ sizingHist.requested = <<3000, 2049>>
    /\ sizingHist.clamped = Some(<<2048, 1399>>)

(***************************************************************************)
(* C20: handle_resize with a zero width or a zero height is ignored: the   *)
(* recorded last size is unchanged, no corrective resize is issued to the  *)
(* OS and the render surface is not reconfigured.                          *)
(***************************************************************************)
C20_ZeroSizeIgnored ==
    ( /\ sizingHist.op = "resize"
      /\ (sizingHist.requested[1] = 0 \/ sizingHist.requested[2] = 0) )
      => /\ sizing.last_size = sizingHist.last_before
         /\ sizingHist.set_inner_size = None
         /\ sizingHist.renderer_resize = None

\* A Resized event of 0x300 on a window that had been resized before.
C20_Witness ==
    /\ sizingHist.op = "resize"
    /\ sizingHist.requested = <<0, 300>>
    /\ sizing.last_size = sizingHist.last_before
    /\ sizing.last_size # sizing.aspect_ratio

(***************************************************************************)
(* C16                                                                     *)
(***************************************************************************)
\* Draining `queue` on a chat window whose visibility is `visible`, some
\* command (Show, or Toggle on a hidden window) makes a hidden window visible.
RECURSIVE BecomesVisible(_, _)
BecomesVisible(visible, queue) ==
    IF queue = <<>> THEN FALSE
    ELSE LET next == ChatWindow_apply(visible, Head(queue))
         IN  (~visible /\ next) \/ BecomesVisible(next, Tail(queue))

\* C16 (as claimed): whenever the chat window becomes visible after having
\* been hidden, through Show or Toggle commands in any number and order
\* within or across ticks, then by the end of the update tick that processes
\* the command is_snapped is true and the window has been repositioned to
\* main_pos + scaled offset, which is recorded as its last programmatic
\* position.
C16_ResnapOnBecomingVisible ==
    [][ ( /\ snapHist'.op = "chat_update"
          /\ BecomesVisible(chatWindow.visible, chatQueue)
          /\ chatWindow'.visible )
        => ( /\ ghostState'.chat_snapped
             /\ ghostState'.chat_last_set_pos = SnapPoint(ghostState')
             /\ snapHist'.set_position # <<>>
             /\ snapHist'.set_position[Len(snapHist'.set_position)]
                  = SnapPoint(ghostState') ) ]_vars

(***************************************************************************)
(* C19                                                                     *)
(***************************************************************************)
\* play_once(state) found its state loaded and updates handed the whole
\* length of that state's animation to AnimatedSkin::update since.
PlayedThrough(state) ==
    /\ IsSome(skinHist.since_play)
    /\ Unwrap(skinHist.since_play).state = state
    /\ Unwrap(skinHist.since_play).t >= PlayLength(animatedSkin, state)

C14_EventsThenAdvanceThenRender ==
    /\ loopHist.ordered
    /\ "render" \in loopHist.did => "update" \in loopHist.did
    /\ runLoop.phase = "events" => loopHist.did \subseteq {"event"}

\* An iteration in which an event was handled, the advance step ran and the
\* main window was rendered with a frame of the animated skin.
C14_Witness ==
    /\ loopHist.did = {"event", "update", "render"}
    /\ runLoop.main_gpu_initialized
    /\ "main" \notin runLoop.redraw
    /\ app.load_state = "Ready"
    /\ IsSome(App_current_skin(app))

(***************************************************************************)
(* C15                                                                     *)
(***************************************************************************)
\* The animated skin is shown and its current animation has frames to step
\* through.
FrameAnimationActive ==
    /\ app.load_state = "Ready"
    /\ IsSome(app.animated_skin)
    /\ LET sk == Unwrap(app.animated_skin)
           a == sk.animations[sk.current_state]
       IN  a.frame_count > 1 /\ ~a.finished

\* The callout is fading or revealing its text.
CalloutAnimationActive ==
    Callout_is_visible(callout) /\ Callout_is_animating(callout)

\* C15 (as claimed): after a tick of the run loop the wake-up policy depends
\* on animation activity: with no active frame, text or fade animation the
\* loop waits for the next event with no timed wake-up, and with some
\* animation active it waits until now + 1/target_fps.  The policy is what
\* control_flow holds when the iteration ends and the event loop acts on it.
C15_WakePolicyFollowsActivity ==
    runLoop.phase = "waiting"
      => IF FrameAnimationActive \/ CalloutAnimationActive
         THEN runLoop.control_flow.kind = "WaitUntil"
         ELSE runLoop.control_flow = Wait

(***************************************************************************)
(* C17                                                                     *)
(***************************************************************************)
\* C17 (as claimed): once App::update has received the loader's skin (load
\* state Loading -> Ready), then within a bounded number of further ticks
\* and without any further input event on the main window the animated
\* skin's GPU textures are initialised and its frame is rendered.  Stated
\* for its first step, for a main window that has been drawn before, and
\* with HandoverTicks as the bound: after that many iterations the skin's
\* init_gpu has run, unless the loop is ending.
C17_LoadedSkinGetsInitialised ==
    ( /\ loopHist.quiet = Some(HandoverTicks)
      /\ runLoop.main_gpu_initialized
      /\ runLoop.control_flow # Exit )
      => ( /\ IsSome(app.animated_skin)
           /\ Unwrap(app.animated_skin).gpu_initialized )

(***************************************************************************)
(* C18                                                                     *)
(***************************************************************************)
\* C18: if the background load fails (the worker ends without sending), the
\* app stays in its pre-load state for ever: every step taken after the
\* failure leaves load_state at Loading, keeps current_skin() returning the
\* still image when it did, keeps the loading layer, and ends the loop only
\* on a quit request or a window event, never because of the failure.
C18_FailedLoadKeepsPreLoadState ==
    [][ loader.state = "failed"
          => /\ loader'.state = "failed"
             /\ app.load_state = "Loading" /\ app'.load_state = "Loading"
             /\ App_current_skin(app) = Some("still")
                   => App_current_skin(app') = Some("still")
             /\ app.loading_layer => app'.loading_layer
             /\ (runLoop.control_flow # Exit /\ runLoop'.control_flow = Exit)
                   => (app'.should_quit \/ runLoop.phase = "events") ]_vars

\* A failed load, and an iteration after it in which the advance step ran
\* and the main window was rendered with the still image under the loading
\* layer.
C18_Witness ==
    /\ loader.state = "failed"
    /\ app.load_state = "Loading"
    /\ App_current_skin(app) = Some("still")
    /\ app.loading_layer
    /\ loopHist.did = {"update", "render"}
    /\ runLoop.control_flow # Exit

(***************************************************************************)
(* C21                                                                     *)
(***************************************************************************)
\* The relation between the current opacity and the focus.
OpacityFollowsFocus ==
    window.current_opacity = IF window.is_focused
                             THEN window.config.opacity_focused
                             ELSE window.config.opacity_unfocused

\* C21: with no set_opacity override pending, after any sequence of
\* handle_focus, set_opacity_focused, set_opacity_unfocused and
\* set_focus_opacity_enabled, whenever focus_opacity_enabled is true the
\* current opacity is opacity_focused for a focused window and
\* opacity_unfocused otherwise; the handle_focus that follows an override
\* restores the relation.
C21_OpacityFollowsFocus ==
    (window.config.focus_opacity_enabled /\ ~opacityOverride)
      => OpacityFollowsFocus

\* A focused window with focus-based opacity on and no override pending,
\* whose focused opacity was just changed to a value other than the
\* unfocused one.
C21_Witness ==
    /\ windowOp = "set_opacity_focused"
    /\ window.config.focus_opacity_enabled
    /\ ~opacityOverride
    /\ window.is_focused
    /\ window.current_opacity = 40
    /\ window.config.opacity_unfocused = 70

(***************************************************************************)
(* C23                                                                     *)
(***************************************************************************)
\* C23 (as claimed): handle_resize issues a corrective set_inner_size exactly
\* when the final size it settles on differs from the size the OS
\* requested, whatever the cause of the difference and whether or not the
\* aspect ratio is maintained.
C23_CorrectiveResizeIffSizeDiffers ==
    (sizingHist.op = "resize" /\ IsSome(sizingHist.clamped))
      => ( IsSome(sizingHist.set_inner_size)
             <=> sizing.last_size # sizingHist.requested )

(***************************************************************************)
(* C22                                                                     *)
(***************************************************************************)
\* The number of echoes after which no corrective resize is pending.
EchoLimit == 2

\* C22: corrective resizing cannot run away.  From any window state and any
\* requested size, when the OS echoes every corrective set_inner_size as a
\* Resized event of exactly that size, handle_resize accepts the size
\* without another corrective resize after at most EchoLimit echoes.
C22_CorrectiveResizeSettles ==
    (sizingHist.op = "resize" /\ sizingHist.echoes >= EchoLimit)
      => sizingHist.set_inner_size = None

\* An echo that handle_resize answered with a second corrective resize,
\* and the echo of that one, which it accepted.
C22_Witness ==
    /\ sizingHist.op = "resize"
    /\ sizingHist.echoes = 2
    /\ sizingHist.set_inner_size = None
    /\ sizing.last_size = sizingHist.requested

(***************************************************************************)
(* C24                                                                     *)
(***************************************************************************)
\* The observed position is within 30 pixels of the anchor point on both
\* axes.
WithinSnapTolerance(position, anchor) ==
    /\ position[1] - anchor[1] <= 30 /\ anchor[1] - position[1] <= 30
    /\ position[2] - anchor[2] <= 30 /\ anchor[2] - position[2] <= 30

\* is_snapped after a Moved event judged by the normal rules.
JudgedNormally ==
    ghostState'.chat_snapped
      = IF ghostState.chat_snapped
        THEN ~BeyondUnsnapTolerance(snapHist'.observed,
                                    ghostState.chat_last_set_pos)
        ELSE WithinSnapTolerance(snapHist'.observed, SnapPoint(ghostState))

\* C24: the Moved event on the chat window that follows a Resized event,
\* whatever position it reports, leaves is_snapped unchanged, clears the
\* suppression flag and, for a snapped window, records the observed
\* position as the last programmatic one.  One Moved event is exempted
\* however many Resized events came before: a Moved event with the flag
\* clear leaves it clear and is judged by the normal rules.
C24_OneMoveExemptAfterResize ==
    [][ snapHist'.op = "chat_moved"
          => /\ ~ghostState'.chat_just_resized
             /\ IF ghostState.chat_just_resized
                THEN /\ ghostState'.chat_snapped = ghostState.chat_snapped
                     /\ ghostState'.chat_last_set_pos
                          = IF ghostState.chat_snapped
                            THEN snapHist'.observed
                            ELSE ghostState.chat_last_set_pos
                     /\ snapHist'.set_position = <<>>
                ELSE JudgedNormally ]_vars

\* A snapped window that observed itself far away right after a resize: it
\* is still snapped, the flag is clear and the far position is recorded.
C24_Witness ==
    /\ snapHist.op = "chat_moved"
    /\ snapHist.observed = FarAway
    /\ snapHist.was_snapped
    /\ ghostState.chat_snapped
    /\ ~ghostState.chat_just_resized
    /\ ghostState.chat_last_set_pos = FarAway
    /\ chatWindow.visible

(***************************************************************************)
(* C25                                                                     *)
(***************************************************************************)
\* C25: for a snapped chat window with no suppression pending, a Moved
\* event unsnaps it if and only if the observed position is off the last
\* programmatic position by more than 10 pixels on at least one axis, and
\* the event never changes the recorded last programmatic position.
C25_UnsnapIffBeyondTolerance ==
    [][ ( /\ snapHist'.op = "chat_moved"
          /\ ghostState.chat_snapped
          /\ ~ghostState.chat_just_resized )
          => /\ ~ghostState'.chat_snapped
                  <=> BeyondUnsnapTolerance(snapHist'.observed,
                                            ghostState.chat_last_set_pos)
             /\ ghostState'.chat_last_set_pos = ghostState.chat_last_set_pos
             /\ snapHist'.set_position = <<>> ]_vars

\* A snapped window that observed itself exactly 10 pixels off its last
\* programmatic position on one axis and stayed snapped.
C25_Witness ==
    /\ snapHist.op = "chat_moved"
    /\ snapHist.was_snapped
    /\ ghostState.chat_snapped
    /\ chatWindow.visible
    /\ snapHist.observed = Add(ghostState.chat_last_set_pos, <<10, 0>>)

(***************************************************************************)
(* C26                                                                     *)
(***************************************************************************)
\* C26: for an unsnapped chat window with no suppression pending, a Moved
\* event re-snaps it if and only if the observed position is within 30
\* pixels (inclusive) of main_pos + scaled offset on both axes; on re-snap
\* the window is repositioned onto that anchor point, which is recorded as
\* the last programmatic position; otherwise is_snapped and the recorded
\* position are unchanged and no reposition is issued.
C26_ResnapIffWithinTolerance ==
    [][ ( /\ snapHist'.op = "chat_moved"
          /\ ~ghostState.chat_snapped
          /\ ~ghostState.chat_just_resized )
          => IF WithinSnapTolerance(snapHist'.observed, SnapPoint(ghostState))
             THEN /\ ghostState'.chat_snapped
                  /\ snapHist'.set_position = <<SnapPoint(ghostState)>>
                  /\ ghostState'.chat_last_set_pos = SnapPoint(ghostState)
             ELSE /\ ~ghostState'.chat_snapped
                  /\ snapHist'.set_position = <<>>
                  /\ ghostState'.chat_last_set_pos
                       = ghostState.chat_last_set_pos ]_vars

\* An unsnapped window that observed itself 30 pixels off the anchor point
\* on both axes and was snapped back onto it.
C26_Witness ==
    /\ snapHist.op = "chat_moved"
    /\ ~snapHist.was_snapped
    /\ ghostState.chat_snapped
    /\ snapHist.observed = Add(SnapPoint(ghostState), <<30, -30>>)
    /\ snapHist.set_position = <<SnapPoint(ghostState)>>
    /\ ghostState.chat_last_set_pos = SnapPoint(ghostState)

(***************************************************************************)
(* C27                                                                     *)
(***************************************************************************)
\* C27 (as claimed): the snap protocol does not feed back on itself.  A
\* Moved event on the chat window that echoes a position the program set
\* on it (the follow reposition or the re-snap of update_state, the
\* reposition issued on re-snap by on_event) never changes is_snapped,
\* whenever the OS delivers it.
C27_EchoNeverChangesSnapped ==
    [][ snapHist'.op = "chat_echo"
          => ghostState'.chat_snapped = ghostState.chat_snapped ]_vars

(***************************************************************************)
(* C28                                                                     *)
(***************************************************************************)
\* C28: once an Animation in Once or OnceAndHide mode has finished, every
\* further update(delta) leaves frame index, time accumulator, direction
\* and finished unchanged, and reset() restores frame 0, accumulator 0,
\* direction +1 and finished = false.
C28_FinishedStaysUntilReset ==
    [][ /\ ( /\ animHist'.op = "update"
             /\ anim.finished
             /\ anim.play_mode \in {"Once", "OnceAndHide"} )
           => /\ anim'.current_frame = anim.current_frame
              /\ anim'.time_accumulator = anim.time_accumulator
              /\ anim'.direction = anim.direction
              /\ anim'.finished
        /\ animHist'.op = "reset"
           => /\ anim'.current_frame = 0
              /\ anim'.time_accumulator = 0
              /\ anim'.direction = 1
              /\ ~anim'.finished ]_vars

\* A finished Once animation of several frames after an update that made
\* no step: the update found it finished.
C28_Witness ==
    /\ animHist.op = "update"
    /\ Len(animHist.trace) = 1
    /\ anim.finished
    /\ anim.play_mode = "Once"
    /\ anim.frame_count >= 2
    /\ anim.current_frame = anim.frame_count - 1

(***************************************************************************)
(* C29                                                                     *)
(***************************************************************************)
\* C29: set_state(s) with s loaded and different from the current state
\* makes s current and leaves its animator reset (frame 0, accumulator 0,
\* direction +1, not finished) while every other animator is unchanged;
\* set_state to a state that is not loaded, or to the current state,
\* changes nothing.
C29_SetStateResetsOnlyTheNewState ==
    [][ skinHist'.op = "set_state"
          => LET s == skinHist'.state
                 loaded == DOMAIN animatedSkin.animations
             IN  IF s \in loaded /\ s # animatedSkin.current_state
                 THEN /\ animatedSkin'.current_state = s
                      /\ animatedSkin'.animations[s].current_frame = 0
                      /\ animatedSkin'.animations[s].time_accumulator = 0
                      /\ animatedSkin'.animations[s].direction = 1
                      /\ ~animatedSkin'.animations[s].finished
                      /\ \A t \in loaded \ {s} :
                           animatedSkin'.animations[t] = animatedSkin.animations[t]
                      /\ DOMAIN animatedSkin'.animations = loaded
                 ELSE animatedSkin' = animatedSkin ]_vars

\* After set_state to a loaded state: that state is current with its
\* animator reset, and the animator of the state left behind is still in
\* the middle of its frames.
C29_Witness ==
    /\ skinHist.op = "set_state"
    /\ animatedSkin.current_state = skinHist.state
    /\ animatedSkin.animations[skinHist.state].current_frame = 0
    /\ animatedSkin.animations[skinHist.state].time_accumulator = 0
    /\ \E t \in DOMAIN animatedSkin.animations \ {skinHist.state} :
         /\ animatedSkin.animations[t].current_frame > 0
         /\ animatedSkin.animations[t].time_accumulator > 0

(***************************************************************************)
(* C30                                                                     *)
(***************************************************************************)
\* Time spans handed to update, whole or in two parts.
SplitDeltas == {1, 2, 3, 5}

C31_HideActsOnlyWhenVisible ==
    [][ calloutHist'.op = "hide"
          => IF callout.is_visible /\ callout.visibility.phase # "Hidden"
             THEN callout'.visibility =
                    IF callout.timing.fade_out = 0 THEN Hidden ELSE FadingOut(0)
             ELSE /\ callout'.visibility = Hidden
                  /\ OpacityNum(callout') = 0 ]_vars

(***************************************************************************)
(* C36                                                                     *)
(***************************************************************************)
\* C36 (as claimed): hide() never increases opacity().  In every phase
\* (Hidden during the delay, FadingIn and FadingOut at any progress,
\* Visible) the opacity after hide() is at most the opacity before it.
C36_HideNeverIncreasesOpacity ==
    [][ calloutHist'.op = "hide"
          => OpacityNum(callout') * OpacityDen(callout)
               <= OpacityNum(callout) * OpacityDen(callout') ]_vars

(***************************************************************************)
(* C32                                                                     *)
(***************************************************************************)
\* C32: skip() forces the full reveal whatever the state of the animator:
\* right after skip() the visible text is the full text and is_complete()
\* is true, and every update() that follows (until a reset) leaves both as
\* they are.
C32_SkipRevealsAllForGood ==
    [][ /\ animatorHist'.op = "skip"
           => /\ TextAnimator_visible_text(animator') = animator'.full_text
              /\ animator'.is_complete
        /\ (animatorHist'.op = "update" /\ animatorHist.skipped)
           => /\ TextAnimator_visible_text(animator') = animator.full_text
              /\ animator'.full_text = animator.full_text
              /\ animator'.is_complete ]_vars

\* An update after a skip that came before the clock had revealed a single
\* character of a text of several characters.
C32_Witness ==
    /\ animatorHist.op = "update"
    /\ animatorHist.skipped
    /\ animator.animation.kind = "Typewriter"
    /\ animator.elapsed < animator.animation.upi
    /\ Len(animator.full_text) >= 2

(***************************************************************************)
(* C33                                                                     *)
(***************************************************************************)
\* C33: within one reveal session (from the construction or a reset to the
\* next reset) the number of visible characters never decreases under
\* update() with a non-negative delta or under skip(), for every animation
\* kind, and it never exceeds the length of the full text.
C33_VisibleCharsMonotone ==
    [][ animatorHist'.op \in {"update", "skip"}
          => /\ animator'.visible_chars >= animator.visible_chars
             /\ animator'.visible_chars <= Len(animator'.full_text) ]_vars

\* An update that revealed more of a text but not yet all of it.
C33_Witness ==
    /\ animatorHist.op = "update"
    /\ ~animatorHist.skipped
    /\ animator.visible_chars > 0
    /\ animator.visible_chars < Len(animator.full_text)

(***************************************************************************)
(* C39                                                                     *)
(***************************************************************************)
\* C39 (as claimed): for every animation kind and text, after any update()
\* is_complete() is true exactly when the visible text is the full text:
\* the reveal is reported complete in the update that makes the last
\* character visible.
C39_CompleteIffAllVisible ==
    [][ animatorHist'.op = "update"
          => ( animator'.is_complete
                 <=> TextAnimator_visible_text(animator') = animator'.full_text )
      ]_vars

(***************************************************************************)
(* C37                                                                     *)
(***************************************************************************)
\* C37: for an Animation of N >= 1 frames, in every play mode and after
\* any sequence of update, reset and set_play_mode (the mode may change in
\* the middle of playback), the current frame index is within 0 .. N-1
\* and the ping-pong direction is +1 or -1.
C37_FrameIndexAndDirectionInRange ==
    /\ anim.frame_count >= 1
    /\ anim.current_frame >= 0
    /\ anim.current_frame <= anim.frame_count - 1
    /\ anim.direction \in {1, -1}

\* A three-frame animation running backwards in PingPong after the play
\* mode was changed in the middle of playback, just stepped by an update.
C37_Witness ==
    /\ animHist.op = "update"
    /\ Len(animHist.trace) >= 2
    /\ animHist.steps = None
    /\ anim.frame_count = 3
    /\ anim.play_mode = "PingPong"
    /\ anim.direction = -1
    /\ anim.current_frame = 0

(***************************************************************************)
(* C38                                                                     *)
(***************************************************************************)
\* C38 (as claimed): an AnimatedSkin never stays on a finished animation.
\* After AnimatedSkin::update() returns, the animation of the current
\* state is not finished, for every sequence of set_state, play_once,
\* set_default_state and update.
C38_NeverStaysOnFinished ==
    [][ ( /\ skinHist'.op = "update"
          /\ animatedSkin'.current_state \in DOMAIN animatedSkin'.animations )
          => ~animatedSkin'.animations[animatedSkin'.current_state].finished
      ]_vars

(***************************************************************************)
(* C34                                                                     *)
(***************************************************************************)
\* What is left of the life of a shown callout with a finite duration: each
\* phase still ahead weighs more than any time a phase can last, the time
\* left in the current phase counts in units.  It is 0 exactly for a
\* callout that is Hidden and no longer shown.
RemainingLife(c) ==
    LET weight == 1000
    IN  IF ~c.is_visible THEN 0
        ELSE CASE c.visibility.phase = "Hidden" ->
                    4 * weight + (c.timing.delay - c.elapsed)
               [] c.visibility.phase = "FadingIn" ->
                    3 * weight + (c.timing.fade_in - c.visibility.progress)
               [] c.visibility.phase = "Visible" ->
                    LET left == c.timing.delay + Unwrap(c.timing.duration)
                                  - c.elapsed
                    IN  2 * weight + (IF left > 0 THEN left ELSE 0)
               [] c.visibility.phase = "FadingOut" ->
                    weight + (c.timing.fade_out - c.visibility.progress)

\* C34: a callout with a finite duration hides by itself.  After a show,
\* while only update() is called (positive deltas, no hide(), no further
\* show), every update of a callout that is still shown brings it strictly
\* closer to Hidden (the remaining life, a natural number, decreases), for
\* zero and non-zero delay, fade_in and fade_out alike; once it is Hidden
\* with is_visible() false, update() leaves it there.
C34_FiniteDurationAutoHides ==
    [][ ( /\ calloutHist'.op = "update"
          /\ calloutHist.onlyUpdated
          /\ IsSome(callout.timing.duration) )
          => /\ RemainingLife(callout) >= 0
             /\ RemainingLife(callout') >= 0
             /\ callout.is_visible
                  => RemainingLife(callout') < RemainingLife(callout)
             /\ ~callout.is_visible
                  => /\ callout.visibility = Hidden
                     /\ callout'.visibility = Hidden
                     /\ ~callout'.is_visible ]_vars

\* A callout with non-zero delay, fade_in and fade_out that was shown and
\* then only updated, Hidden again after its fade-out.
C34_Witness ==
    /\ calloutHist.op = "update"
    /\ calloutHist.onlyUpdated
    /\ IsSome(callout.timing.duration)
    /\ callout.timing.delay > 0
    /\ callout.timing.fade_in > 0
    /\ callout.timing.fade_out > 0
    /\ callout.visibility = Hidden
    /\ ~callout.is_visible
    /\ callout.elapsed >= callout.timing.delay + Unwrap(callout.timing.duration)

(***************************************************************************)
(* C35                                                                     *)
(***************************************************************************)
\* C35: the GPU initialisation of the main and of the callout window is
\* lazy and happens once.  app.init_gpu and callout_app.init_gpu are each
\* called at most once, never before the window's first RedrawRequested,
\* and always before the window is first rendered; further redraws do not
\* initialise again.
C35_GpuInitLazyAndOnce ==
    \A w \in {"main", "callout"} :
       /\ loopHist.gpu.inits[w] <= 1
       /\ loopHist.gpu.inits[w] >= 1 => w \in loopHist.gpu.redrawn
       /\ w \in loopHist.gpu.redrawn => loopHist.gpu.inits[w] = 1
       /\ w \notin loopHist.gpu.unready

\* Both windows have been redrawn again after their initialisation.
C35_Witness ==
    /\ loopHist.gpu.again = {"main", "callout"}
    /\ loopHist.gpu.inits = [w \in {"main", "callout"} |-> 1]
    /\ runLoop.main_gpu_initialized
    /\ runLoop.callout_gpu_initialized

(***************************************************************************)
(* C40                                                                     *)
(***************************************************************************)
\* C40 (as claimed): after any sequence of handle_resize calls, with the
\* aspect ratio maintained or not, the recorded window size (last_size)
\* never has a zero width or a zero height.
C40_RecordedSizeNeverZero ==
    sizingHist.op # "new"
      => /\ sizing.last_size[1] > 0
         /\ sizing.last_size[2] > 0

====
